--------------------------- MODULE FilePublication ---------------------------
(***************************************************************************)
(* How jqf puts bytes into files (jqf-cli/src/output.rs, and the runs of   *)
(* main.rs and routes/edit.rs that call it).  Several processes share one  *)
(* directory; each has a plan, the destinations it writes in turn, by one  *)
(* of three routes:                                                        *)
(*   "whole"  --output and --in-place: a CliWriter opened before the run's *)
(*            drive and committed after it,                                *)
(*   "edit"   --edit: the drive first, then write_atomic,                  *)
(*   "split"  --split-exp: a CliWriter for each published item.            *)
(* A plan is atomic (temporary file, fsync, rename, fsync of the           *)
(* directory) or not (--no-atomic: the destination's own inode).           *)
(*                                                                         *)
(* A system call may fail, a process may be killed, the machine may lose   *)
(* power: the directory is then in a state the journal still holds, and a  *)
(* file has its synced bytes or those of the page cache.  Left out: modes, *)
(* owners, symbolic links (a destination is what they resolve to), colour. *)
(***************************************************************************)
EXTENDS Integers, Sequences, FiniteSets

CONSTANTS
  Procs,        (* process identifiers                                       *)
  Targets,      (* destinations                                              *)
  Existing,     (* those that exist at the start                             *)
  Fresh,        (* inodes not in use at the start                            *)
  Out,          (* the base name of CliWriter's temporary file               *)
  Plans,        (* by process, the plans they may be started with            *)
  Chunks,       (* writes that make one whole output                         *)
  MaxFaults,    (* bound: system calls that fail                             *)
  MaxCrashes    (* bound: kills and losses of power                          *)

ASSUME PublicationAssumption ==
  /\ Chunks \in Nat \ {0} /\ MaxFaults \in Nat /\ MaxCrashes \in Nat
  /\ Existing \subseteq Targets /\ Out \notin Targets
  /\ Targets \cap Fresh = {} /\ Targets \cap (Procs \X (Targets \cup {Out})) = {}
  /\ <<"no inode">> \notin Targets \cup Fresh
  /\ Plans \subseteq [Procs -> [route : {"whole", "edit", "split"}, atomic : BOOLEAN,
                               items : Seq(Targets)]]

VARIABLES
  disk,         (* by inode: its bytes in the page cache and on the platter  *)
  journal,      (* directory states: the durable one first, the current last *)
  plan, pc,
  item,         (* index of the destination being written                    *)
  ino,          (* the inode its writer has open                             *)
  sent,         (* writes the writer has accepted; some may be buffered      *)
  skipped,      (* the split items its drive gave up after opening their file *)
  blamed,       (* something failed that the process has to answer for       *)
  published,    (* ghost: the writings that reached their destination        *)
  may,          (* ghost, by target: what a loss of power may leave there    *)
  faults, crashes,
  residue       (* a temporary file may stay: a kill, or a failed removal    *)

run == <<plan, pc, item, ino, sent, skipped, blamed>>
vars == <<disk, journal, run, published, may, faults, crashes, residue>>

Inodes == Targets \cup Fresh
Temps == Procs \X (Targets \cup {Out})
Names == Targets \cup Temps

NoInode == <<"no inode">>
Original == <<"original">>
Absent == <<"absent">>
Mixed == <<"mixed">>

Now == journal[Len(journal)]
States == {journal[k] : k \in 1..Len(journal)}

\* The first n writes of the writing w.
Bytes(w, n) == [of |-> w, n |-> n]
IsWhole(b) == b.of # Mixed /\ b.n = Chunks

\* What a file holds once the writing w has put its first n writes there.
Wrote(b, w, n) == IF b.of = w THEN Bytes(w, n) ELSE Bytes(Mixed, 0)

Shown(d, t) == IF d[t] = NoInode THEN Absent ELSE disk[d[t]].cache.of

Live(p) == pc[p] \notin {"ok", "failed", "dead"}
Target(p) == plan[p].items[item[p]]
Writing(p) == <<p, item[p]>>

\* SplitDestination::current still holds the writer of the item before.
Stale(p) == (item[p] - 1) \in skipped[p]

\* Mutant: temporary names without the process identifier.
CreatedShared(p) == IF ~plan[p].atomic THEN Target(p) ELSE <<CHOOSE x \in Procs : TRUE, Out>>

\* The name File::create is given. write_atomic's temporary file carries the
\* name of its target, CliWriter's only the process.
Created(p) == IF ~plan[p].atomic THEN Target(p)
              ELSE <<p, IF plan[p].route = "edit" THEN Target(p) ELSE Out>>

Unused == {i \in Inodes : /\ \A d \in States : \A n \in Names : d[n] # i
                          /\ \A p \in Procs : ino[p] # i}

Link(n, i) == journal' = Append(journal, [Now EXCEPT ![n] = i])
Put(i, w, n) == disk' = [disk EXCEPT ![i].cache = Wrote(@, w, n)]

Fault(p) == /\ faults < MaxFaults /\ faults' = faults + 1
            /\ blamed' = [blamed EXCEPT ![p] = TRUE]

\* The run fails and its writer is dropped before the commit: a temporary file
\* it has is removed by name, unless that fails too, and a buffer still
\* flushes into the file it was for.
Abandon(p, owns) ==
  /\ pc' = [pc EXCEPT ![p] = "failed"]
  /\ ino' = [ino EXCEPT ![p] = NoInode]
  /\ IF owns /\ plan[p].atomic /\ Now[Created(p)] # NoInode
     THEN \/ Link(Created(p), NoInode) /\ UNCHANGED residue
          \/ residue' = TRUE /\ UNCHANGED journal
     ELSE UNCHANGED <<journal, residue>>
  /\ IF ino[p] # NoInode /\ plan[p].route # "edit"
     THEN Put(ino[p], Writing(p), sent[p])
     ELSE UNCHANGED disk
  /\ UNCHANGED <<plan, item, sent, skipped, published, may, crashes>>

\* A system call fails, and `?` carries the failure out of the run.
Fails(p) == Fault(p) /\ Abandon(p, TRUE)

Blamed(p) == /\ blamed' = [blamed EXCEPT ![p] = TRUE] /\ UNCHANGED faults
             /\ Abandon(p, pc[p] # "next" \/ Stale(p))

\* The next item's name is taken: PipelineFailure::SplitCollision.
Collision(p) == /\ plan[p].route = "split"
                /\ \E k \in 1..(item[p] - 1) : plan[p].items[k] = Target(p)

\* The input cannot be read, or the drive fails: before write_atomic, after
\* CliWriter::file, or between two items.
DriveFails(p) ==
  /\ \/ pc[p] = "next" /\ (plan[p].route # "split" => item[p] <= Len(plan[p].items))
     \/ pc[p] = "open" /\ plan[p].route # "edit"
  /\ Blamed(p)

\* CliWriter::file, or the head of write_atomic: File::create empties the
\* file of that name or makes one.
Open(p) ==
  /\ pc[p] = "next" /\ item[p] <= Len(plan[p].items) /\ ~Collision(p)
  /\ \/ \E i \in Unused :
          /\ Now[Created(p)] = NoInode
          /\ Link(Created(p), i)
          /\ disk' = [disk EXCEPT ![i] = [cache |-> Bytes(Writing(p), 0),
                                         platter |-> Bytes(Mixed, 0)]]
          /\ ino' = [ino EXCEPT ![p] = i]
     \/ /\ Now[Created(p)] # NoInode
        /\ disk' = [disk EXCEPT ![Now[Created(p)]].cache = Bytes(Writing(p), 0)]
        /\ ino' = [ino EXCEPT ![p] = Now[Created(p)]]
        /\ UNCHANGED journal
  /\ pc' = [pc EXCEPT ![p] = IF plan[p].atomic THEN "created" ELSE "open"]
  /\ sent' = [sent EXCEPT ![p] = 0]
  /\ UNCHANGED <<plan, item, skipped, blamed, published, may, faults, crashes, residue>>

\* File::create fails. Only write_atomic removes the name it did not get.
OpenFails(p) ==
  /\ pc[p] = "next" /\ item[p] <= Len(plan[p].items)
  /\ \/ ~Collision(p) /\ Fault(p) /\ Abandon(p, plan[p].route = "edit" \/ Stale(p))
     \/ Collision(p) /\ Blamed(p)

\* set_permissions and chown on the temporary file. SplitDestination::open
\* then assigns the writer over a stale one, whose Drop removes their name.
Prepare(p) ==
  /\ pc[p] = "created"
  /\ \/ /\ pc' = [pc EXCEPT ![p] = "open"]
        /\ IF Stale(p) THEN Link(Created(p), NoInode) ELSE UNCHANGED journal
        /\ UNCHANGED <<disk, plan, item, ino, sent, skipped, blamed,
                       published, may, faults, crashes, residue>>
     \/ Fails(p)

\* One write: write_atomic's goes to the file, CliWriter's through a buffer
\* that may keep it, spill what it held, or pass everything on.
Write(p) ==
  /\ pc[p] = "open" /\ sent[p] < Chunks
  /\ \/ /\ sent' = [sent EXCEPT ![p] = @ + 1]
        /\ \/ Put(ino[p], Writing(p), sent[p] + 1)
           \/ plan[p].route # "edit" /\ Put(ino[p], Writing(p), sent[p])
           \/ plan[p].route # "edit" /\ UNCHANGED disk
        /\ UNCHANGED <<journal, plan, pc, item, ino, skipped, blamed,
                       published, may, faults, crashes, residue>>
     \/ Fails(p)

\* --raw-output0 meets a NUL after the item's file was opened: the drive
\* goes on with the next value and never finishes this item.
Skip(p) ==
  /\ plan[p].route = "split" /\ pc[p] = "open" /\ sent[p] = 0
  /\ pc' = [pc EXCEPT ![p] = "next"]
  /\ item' = [item EXCEPT ![p] = @ + 1]
  /\ ino' = [ino EXCEPT ![p] = NoInode]
  /\ skipped' = [skipped EXCEPT ![p] = @ \cup {item[p]}]
  /\ UNCHANGED <<disk, journal, plan, sent, blamed, published, may,
                 faults, crashes, residue>>

\* CliWriter::commit flushes its buffer; without a temporary file it is done,
\* as fs::write is.
Flush(p) ==
  /\ pc[p] = "open" /\ sent[p] = Chunks
  /\ plan[p].route = "edit" => ~plan[p].atomic
  /\ \/ /\ Put(ino[p], Writing(p), Chunks)
        /\ IF plan[p].atomic
           THEN /\ pc' = [pc EXCEPT ![p] = "flushed"]
                /\ UNCHANGED <<item, ino, published>>
           ELSE /\ pc' = [pc EXCEPT ![p] = "next"]
                /\ item' = [item EXCEPT ![p] = @ + 1]
                /\ ino' = [ino EXCEPT ![p] = NoInode]
                /\ published' = published \cup {Writing(p)}
        /\ UNCHANGED <<journal, plan, sent, skipped, blamed, may, faults, crashes, residue>>
     \/ Fails(p)

\* Mutant: the bytes are not synced before the rename.
SyncForgotten(p) ==
  /\ \/ pc[p] = "flushed"
     \/ /\ pc[p] = "open" /\ sent[p] = Chunks
        /\ plan[p].route = "edit" /\ plan[p].atomic
  /\ pc' = [pc EXCEPT ![p] = "synced"]
  /\ UNCHANGED <<disk, journal, plan, item, ino, sent, skipped, blamed,
                 published, may, faults, crashes, residue>>

\* sync_all on the temporary file.
Sync(p) ==
  /\ \/ pc[p] = "flushed"
     \/ /\ pc[p] = "open" /\ sent[p] = Chunks
        /\ plan[p].route = "edit" /\ plan[p].atomic
  /\ \/ /\ disk' = [disk EXCEPT ![ino[p]].platter = disk[ino[p]].cache]
        /\ pc' = [pc EXCEPT ![p] = "synced"]
        /\ UNCHANGED <<journal, plan, item, ino, sent, skipped, blamed,
                       published, may, faults, crashes, residue>>
     \/ Fails(p)

Renamed(p) ==
  /\ pc' = [pc EXCEPT ![p] = "renamed"]
  /\ ino' = [ino EXCEPT ![p] = NoInode]
  /\ UNCHANGED <<disk, plan, item, sent, skipped, crashes, residue>>
Moved(p) ==
  /\ Now[Created(p)] # NoInode
  /\ journal' = Append(journal, [Now EXCEPT ![Created(p)] = NoInode,
                                            ![Target(p)] = Now[Created(p)]])
  /\ published' = published \cup {Writing(p)}
  /\ may' = [may EXCEPT ![Target(p)] = @ \cup {Writing(p)}]
  /\ Renamed(p)

\* Mutants: the slot is cleared before the rename is known to have succeeded;
\* a rename that fails is passed over.
RenameClearsFirst(p) ==
  /\ pc[p] = "synced"
  /\ \/ Moved(p) /\ UNCHANGED <<blamed, faults>>
     \/ Fault(p) /\ Abandon(p, FALSE)
RenameBestEffort(p) ==
  /\ pc[p] = "synced"
  /\ \/ Moved(p) /\ UNCHANGED <<blamed, faults>>
     \/ Fault(p) /\ Renamed(p) /\ UNCHANGED <<journal, published, may>>

\* fs::rename; the temporary slot is cleared only once it has succeeded.
Rename(p) ==
  /\ pc[p] = "synced"
  /\ \/ Moved(p) /\ UNCHANGED <<blamed, faults>>
     \/ Now[Created(p)] = NoInode /\ Abandon(p, TRUE) /\ UNCHANGED <<blamed, faults>>
     \/ Fails(p)

\* Mutant: something other than the directory is synced.
SyncParentElsewhere(p) ==
  /\ pc[p] = "renamed"
  /\ may' = [t \in Targets |-> {Shown(Now, t)}]
  /\ pc' = [pc EXCEPT ![p] = "next"]
  /\ item' = [item EXCEPT ![p] = @ + 1]
  /\ UNCHANGED <<disk, journal, plan, ino, sent, skipped, blamed, published,
                 faults, crashes, residue>>

\* sync_parent, best effort.
SyncParent(p) ==
  /\ pc[p] = "renamed"
  /\ \/ /\ journal' = <<Now>>
        /\ may' = [t \in Targets |-> {Shown(Now, t)}]
     \/ UNCHANGED <<journal, may>>
  /\ pc' = [pc EXCEPT ![p] = "next"]
  /\ item' = [item EXCEPT ![p] = @ + 1]
  /\ UNCHANGED <<disk, plan, ino, sent, skipped, blamed, published, faults, crashes, residue>>

\* Every destination is written. The sink is dropped, and a stale writer
\* with it.
Finish(p) ==
  /\ pc[p] = "next" /\ item[p] > Len(plan[p].items)
  /\ pc' = [pc EXCEPT ![p] = "ok"]
  /\ IF Stale(p) /\ plan[p].atomic THEN Link(<<p, Out>>, NoInode) ELSE UNCHANGED journal
  /\ UNCHANGED <<disk, plan, item, ino, sent, skipped, blamed, published, may,
                 faults, crashes, residue>>

\* The process dies with nothing unwound.
Kill(p) ==
  /\ Live(p) /\ crashes < MaxCrashes
  /\ crashes' = crashes + 1 /\ residue' = TRUE
  /\ pc' = [pc EXCEPT ![p] = "dead"]
  /\ ino' = [ino EXCEPT ![p] = NoInode]
  /\ UNCHANGED <<disk, journal, plan, item, sent, skipped, blamed, published, may, faults>>

\* Whatever had not reached the platter may be lost.
PowerLoss ==
  /\ crashes < MaxCrashes
  /\ crashes' = crashes + 1 /\ residue' = TRUE
  /\ \E d \in States :
       /\ journal' = <<d>>
       /\ \E lost \in SUBSET {d[n] : n \in Names} :
            disk' = [i \in Inodes |->
                       LET b == IF i \in lost THEN disk[i].platter ELSE disk[i].cache
                       IN [cache |-> b, platter |-> b]]
  /\ pc' = [p \in Procs |-> IF Live(p) THEN "dead" ELSE pc[p]]
  /\ ino' = [p \in Procs |-> NoInode]
  /\ UNCHANGED <<plan, item, sent, skipped, blamed, published, may, faults>>

\* The same command, under the same process identifier.
Restart(p) ==
  /\ pc[p] = "dead"
  /\ pc' = [pc EXCEPT ![p] = "next"]
  /\ item' = [item EXCEPT ![p] = 1]
  /\ skipped' = [skipped EXCEPT ![p] = {}]
  /\ published' = {w \in published : w[1] # p}
  /\ UNCHANGED <<disk, journal, plan, ino, sent, blamed, may, faults, crashes, residue>>

Init ==
  /\ disk = [i \in Inodes |-> [cache |-> Bytes(Original, Chunks),
                               platter |-> Bytes(Original, Chunks)]]
  /\ journal = << [n \in Names |-> IF n \in Existing THEN n ELSE NoInode] >>
  /\ plan \in Plans
  /\ pc = [p \in Procs |-> "next"] /\ item = [p \in Procs |-> 1]
  /\ ino = [p \in Procs |-> NoInode]
  /\ sent = [p \in Procs |-> 0] /\ skipped = [p \in Procs |-> {}]
  /\ blamed = [p \in Procs |-> FALSE] /\ published = {}
  /\ may = [t \in Targets |-> {IF t \in Existing THEN Original ELSE Absent}]
  /\ faults = 0 /\ crashes = 0 /\ residue = FALSE

Next == \/ \E p \in Procs : \/ DriveFails(p) \/ Open(p) \/ OpenFails(p)
                            \/ Prepare(p) \/ Write(p) \/ Skip(p) \/ Flush(p) \/ Sync(p)
                            \/ Rename(p) \/ SyncParent(p) \/ Finish(p)
                            \/ Kill(p) \/ Restart(p)
        \/ PowerLoss

Spec == Init /\ [][Next]_vars
-----------------------------------------------------------------------------
Contents == [of : (Procs \X Nat) \cup {Original, Mixed}, n : 0..Chunks]
Directories == [Names -> Inodes \cup {NoInode}]

TypeOK ==
  /\ disk \in [Inodes -> [cache : Contents, platter : Contents]]
  /\ journal \in Seq(Directories) /\ journal # <<>>
  /\ plan \in Plans
  /\ pc \in [Procs -> {"next", "created", "open", "flushed", "synced", "renamed",
                       "ok", "failed", "dead"}]
  /\ item \in [Procs -> Nat \ {0}]
  /\ ino \in [Procs -> Inodes \cup {NoInode}]
  /\ sent \in [Procs -> 0..Chunks] /\ skipped \in [Procs -> SUBSET Nat]
  /\ blamed \in [Procs -> BOOLEAN] /\ published \subseteq Procs \X Nat
  /\ may \in [Targets -> SUBSET ((Procs \X Nat) \cup {Original, Absent, Mixed})]
  /\ faults \in Nat /\ crashes \in Nat /\ residue \in BOOLEAN

\* A target only atomic plans write.
Guarded(t) == \A p \in Procs : t \in {plan[p].items[k] : k \in 1..Len(plan[p].items)}
                                 => plan[p].atomic

\* The atomicity law (output.rs:6-18, docs/editing.md "Atomicity"): whatever
\* fails, is killed or loses power, and whoever else writes it, a destination
\* is a whole file: the one that was there or one that was written whole.
TargetsWhole ==
  \A t \in Targets : Guarded(t) =>
    /\ t \in Existing => Now[t] # NoInode
    /\ Now[t] # NoInode => IsWhole(disk[Now[t]].cache)

\* What the directory's fsync covered stays: after a loss of power a target
\* shows the writing last covered or one renamed over it since, never one
\* that an earlier success had replaced.
SyncedSurvives == \A t \in Targets : Guarded(t) => Shown(Now, t) \in may[t]

\* A run that fails without being killed takes its temporary file with it,
\* wherever it failed (output.rs:680).
NothingLeftBehind ==
  residue \/ \A p \in Procs : ~Live(p) => \A b \in Targets \cup {Out} : Now[<<p, b>>] = NoInode

\* A run ends well only if every file it opened, and did not skip, was
\* published: no failure on the way to the rename is lost.
SuccessIsPublished ==
  \A p \in Procs : pc[p] = "ok" =>
    \A k \in 1..Len(plan[p].items) : k \in skipped[p] \/ <<p, k>> \in published

\* A run fails only over something that failed: no other process takes its
\* temporary file away. The item right behind a skipped one is exempt: its own
\* SplitDestination::open (output.rs:92) drops the stale writer last, whose Drop
\* removes the name they share, and its rename then fails with nothing wrong,
\* though jqf-sdk/src/drive/mod.rs:549-552 promises that "the next item opens
\* normally".
FailureHasCause == \A p \in Procs : pc[p] = "failed" => blamed[p] \/ Stale(p)
=============================================================================
