------------------------ MODULE FilePublicationProofs ------------------------
(***************************************************************************)
(* Proofs about FilePublication, for any processes, destinations, plans,   *)
(* output lengths and numbers of faults and crashes.                       *)
(***************************************************************************)
EXTENDS FilePublication, TLAPS

-----------------------------------------------------------------------------
(* The inductive invariant.                                                *)

Opened(p) == pc[p] \in {"created", "open", "flushed", "synced"}

\* In one directory an inode has one name; no inode is ever at two targets; an
\* inode at a temporary name now has never had another.
Naming ==
  /\ \A d \in States : \A n, k \in Names : d[n] = d[k] /\ d[n] # NoInode => n = k
  /\ \A d, e \in States : \A t, u \in Targets : d[t] = e[u] /\ d[t] # NoInode => t = u
  /\ \A d \in States : \A n \in Temps : \A k \in Names :
       Now[n] # NoInode /\ d[k] = Now[n] => k = n

\* An open inode is at no target but the one its writer writes directly, at no
\* temporary name but its writer's, and, if that is atomic, no other's.
Owned ==
  \A p \in Procs : Opened(p) =>
    /\ \A d \in States : \A t \in Targets : d[t] = ino[p] => t = Created(p)
    /\ \A n \in Temps : Now[n] = ino[p] => n = Created(p)
    /\ plan[p].atomic => \A q \in Procs : ino[q] = ino[p] => q = p

\* Whatever directory a loss of power leaves, its guarded targets are whole, on
\* the platter too, and show what they may.
Settled ==
  \A d \in States : \A t \in Targets : Guarded(t) =>
    /\ t \in Existing => d[t] # NoInode
    /\ d[t] # NoInode => /\ IsWhole(disk[d[t]].cache)
                         /\ disk[d[t]].platter = disk[d[t]].cache
    /\ Shown(d, t) \in may[t]

\* Where a process stands.
Placed(p) ==
  /\ ino[p] # NoInode <=> Opened(p)
  /\ Opened(p) \/ pc[p] = "renamed" => item[p] <= Len(plan[p].items)
  /\ pc[p] \in {"created", "flushed", "synced", "renamed"} => plan[p].atomic
  /\ skipped[p] # {} => plan[p].route = "split"

\* What an atomic writer's inode holds.
Filled(p) ==
  Opened(p) /\ plan[p].atomic =>
    /\ disk[ino[p]].cache.of = Writing(p)
    /\ pc[p] = "created" => sent[p] = 0
    /\ pc[p] \in {"flushed", "synced"} => disk[ino[p]].cache.n = Chunks
    /\ plan[p].route = "edit" => disk[ino[p]].cache.n = sent[p]
    /\ pc[p] = "synced" => disk[ino[p]].platter = disk[ino[p]].cache

\* Only a writer left by a skipped item takes a temporary file away.
Kept(p) ==
  Opened(p) /\ plan[p].atomic =>
    Now[Created(p)] = ino[p] \/ (Now[Created(p)] = NoInode /\ Stale(p))

\* Every temporary file has a process that will remove it or rename it.
Tidy(p) ==
  residue \/ \A b \in Targets \cup {Out} :
    Now[<<p, b>>] # NoInode =>
      /\ plan[p].atomic /\ <<p, b>> = Created(p)
      /\ Opened(p) \/ (pc[p] = "next" /\ Stale(p))

\* What a process has done, and what it ends on.
Told(p) ==
  /\ \A k \in 1..(item[p] - 1) : k \in skipped[p] \/ <<p, k>> \in published
  /\ pc[p] = "renamed" => Writing(p) \in published
  /\ pc[p] = "ok" => item[p] > Len(plan[p].items)
  /\ pc[p] = "failed" => blamed[p] \/ Stale(p)

Each(p) == Placed(p) /\ Filled(p) /\ Kept(p) /\ Tidy(p) /\ Told(p)

IInv == TypeOK /\ Naming /\ Owned /\ Settled /\ \A p \in Procs : Each(p)

-----------------------------------------------------------------------------
(* Names.                                                                  *)

\* The bounds are natural numbers.
LEMMA BoundsTyped == Chunks \in Nat /\ Chunks > 0 /\ MaxFaults \in Nat /\ MaxCrashes \in Nat
<1>1. Chunks \in Nat \ {0} /\ MaxFaults \in Nat /\ MaxCrashes \in Nat
  BY Zenon, PublicationAssumption
<1> QED
  BY <1>1

\* Targets, temporary names and the mark of no inode are different things.
LEMMA NamesApart ==
  /\ \A n \in Temps : n \notin Targets /\ n \in Names
  /\ Targets \subseteq Names /\ Targets \subseteq Inodes
  /\ NoInode \notin Inodes
  /\ \A p \in Procs : \A b \in Targets \cup {Out} : <<p, b>> \in Temps
BY PublicationAssumption DEF Temps, Names, Inodes, NoInode

\* What a process was started with.
LEMMA PlanTyped ==
  ASSUME TypeOK, NEW p \in Procs
  PROVE  /\ plan[p].route \in {"whole", "edit", "split"} /\ plan[p].atomic \in BOOLEAN
         /\ plan[p].items \in Seq(Targets)
         /\ item[p] <= Len(plan[p].items) => Target(p) \in Targets
<1>1. plan \in [Procs -> [route : {"whole", "edit", "split"}, atomic : BOOLEAN, items : Seq(Targets)]]
  BY PublicationAssumption DEF TypeOK
<1>2. item[p] \in Nat \ {0}
  BY DEF TypeOK
<1> QED
  BY <1>1, <1>2 DEF Target

\* The name File::create is given is the writer's own, or the destination.
LEMMA CreatedTyped ==
  ASSUME TypeOK, NEW p \in Procs, item[p] <= Len(plan[p].items) \/ plan[p].route = "split"
  PROVE  /\ plan[p].atomic => /\ Created(p) \in Temps
                              /\ \E b \in Targets \cup {Out} : Created(p) = <<p, b>>
         /\ ~plan[p].atomic => Created(p) = Target(p)
BY PlanTyped, NamesApart DEF Created

\* Every directory a loss of power may leave maps names to inodes.
LEMMA Directory ==
  ASSUME TypeOK
  PROVE  /\ Now \in States /\ \A d \in States : d \in Directories
         /\ \A d \in States : \A n \in Names : d[n] = NoInode \/ d[n] \in Inodes
<1>1. journal \in Seq(Directories) /\ Len(journal) \in 1..Len(journal)
  BY DEF TypeOK
<1> QED
  BY <1>1 DEF States, Now, Directories

\* An entry of the journal is one more directory, and the current one.
LEMMA Appended ==
  ASSUME TypeOK, NEW d \in Directories, journal' = Append(journal, d)
  PROVE  /\ journal' \in Seq(Directories) /\ journal' # <<>>
         /\ Now' = d /\ States' = States \cup {d}
<1>1. journal \in Seq(Directories) /\ Len(journal) \in Nat
  BY DEF TypeOK
<1>2. /\ journal' \in Seq(Directories) /\ Len(journal') = Len(journal) + 1
      /\ \A k \in 1..Len(journal) : journal'[k] = journal[k]
      /\ journal'[Len(journal) + 1] = d
  BY <1>1
<1>3. States' = {journal'[k] : k \in 1..(Len(journal) + 1)}
  BY <1>2 DEF States
<1> QED
  BY <1>1, <1>2, <1>3 DEF States, Now

\* A guarded target never names an inode somebody has open.
LEMMA GuardedApart ==
  ASSUME TypeOK, Owned, NEW p \in Procs, Placed(p), Opened(p),
         NEW d \in States, NEW t \in Targets, Guarded(t)
  PROVE  d[t] # ino[p]
<1> SUFFICES ASSUME d[t] = ino[p] PROVE FALSE
  OBVIOUS
<1>1. t = Created(p) /\ item[p] <= Len(plan[p].items)
  BY DEF Owned, Placed
<1>2. ~plan[p].atomic /\ t = Target(p)
  BY <1>1, CreatedTyped, NamesApart
<1>3. item[p] \in 1..Len(plan[p].items)
  BY <1>1, PlanTyped DEF TypeOK
<1> QED
  BY <1>2, <1>3 DEF Guarded, Target

\* Names come and go.
LEMMA NamingUnlinked ==
  ASSUME TypeOK, Naming, NEW n \in Temps, Link(n, NoInode)
  PROVE  /\ Naming'
         /\ Now' = [Now EXCEPT ![n] = NoInode] /\ States' = States \cup {Now'}
         /\ journal' \in Seq(Directories) /\ journal' # <<>>
<1> DEFINE e == [Now EXCEPT ![n] = NoInode]
<1>1. Now \in States /\ Now \in Directories
  BY Directory
<1>2. e \in Directories /\ \A k \in Names : e[k] = IF k = n THEN NoInode ELSE Now[k]
  BY <1>1, NamesApart DEF Directories
<1>3. journal' \in Seq(Directories) /\ journal' # <<>> /\ Now' = e /\ States' = States \cup {e}
  BY <1>2, Appended DEF Link
<1> HIDE DEF e
<1>4. \A d \in States' : \A k, l \in Names : d[k] = d[l] /\ d[k] # NoInode => k = l
  BY <1>1, <1>2, <1>3 DEF Naming
<1>5. \A d, f \in States' : \A t, u \in Targets : d[t] = f[u] /\ d[t] # NoInode => t = u
  BY <1>1, <1>2, <1>3, NamesApart DEF Naming
<1>6. \A d \in States' : \A k \in Temps : \A l \in Names :
        Now'[k] # NoInode /\ d[l] = Now'[k] => l = k
  BY <1>1, <1>2, <1>3, NamesApart DEF Naming
<1>7. Naming'
  BY <1>4, <1>5, <1>6 DEF Naming
<1> QED
  BY <1>3, <1>7 DEF e

\* A name is given an inode nobody knows.
LEMMA NamingLinked ==
  ASSUME TypeOK, Naming, NEW n \in Names, NEW i \in Unused, Link(n, i), Now[n] = NoInode
  PROVE  /\ Naming'
         /\ Now' = [Now EXCEPT ![n] = i] /\ States' = States \cup {Now'}
         /\ journal' \in Seq(Directories) /\ journal' # <<>>
<1> DEFINE e == [Now EXCEPT ![n] = i]
<1>1. Now \in States /\ Now \in Directories
  BY Directory
<1>2. i \in Inodes /\ i # NoInode /\ \A d \in States : \A k \in Names : d[k] # i
  BY NamesApart DEF Unused
<1>3. e \in Directories /\ \A k \in Names : e[k] = IF k = n THEN i ELSE Now[k]
  BY <1>1, <1>2, NamesApart DEF Directories
<1>4. journal' \in Seq(Directories) /\ journal' # <<>> /\ Now' = e /\ States' = States \cup {e}
  BY <1>3, Appended DEF Link
<1> HIDE DEF e
<1>5. \A d \in States' : \A k, l \in Names : d[k] = d[l] /\ d[k] # NoInode => k = l
  BY <1>1, <1>2, <1>3, <1>4 DEF Naming
<1>6. \A d, f \in States' : \A t, u \in Targets : d[t] = f[u] /\ d[t] # NoInode => t = u
  BY <1>1, <1>2, <1>3, <1>4, NamesApart DEF Naming
<1>7. \A d \in States' : \A k \in Temps : \A l \in Names :
        Now'[k] # NoInode /\ d[l] = Now'[k] => l = k
  BY <1>1, <1>2, <1>3, <1>4, NamesApart DEF Naming
<1>8. Naming'
  BY <1>5, <1>6, <1>7 DEF Naming
<1> QED
  BY <1>4, <1>8 DEF e

\* A rename moves a temporary name's inode to a target.
LEMMA NamingMoved ==
  ASSUME TypeOK, Naming, NEW c \in Temps, NEW t \in Targets, Now[c] # NoInode,
         journal' = Append(journal, [Now EXCEPT ![c] = NoInode, ![t] = Now[c]])
  PROVE  /\ Naming'
         /\ Now' = [Now EXCEPT ![c] = NoInode, ![t] = Now[c]] /\ States' = States \cup {Now'}
         /\ journal' \in Seq(Directories) /\ journal' # <<>>
<1> DEFINE e == [Now EXCEPT ![c] = NoInode, ![t] = Now[c]]
<1>1. Now \in States /\ Now \in Directories
  BY Directory
<1>2. e \in Directories
      /\ \A k \in Names : e[k] = IF k = t THEN Now[c] ELSE IF k = c THEN NoInode ELSE Now[k]
  BY <1>1, NamesApart DEF Directories
<1>3. journal' \in Seq(Directories) /\ journal' # <<>> /\ Now' = e /\ States' = States \cup {e}
  BY <1>2, Appended
<1>4. \A d \in States : \A k \in Names : d[k] = Now[c] => k = c
  BY <1>1, NamesApart DEF Naming
<1> HIDE DEF e
<1>5. \A d \in States' : \A k, l \in Names : d[k] = d[l] /\ d[k] # NoInode => k = l
  BY <1>1, <1>2, <1>3, <1>4, NamesApart DEF Naming
<1>6. \A d, f \in States' : \A u, v \in Targets : d[u] = f[v] /\ d[u] # NoInode => u = v
  BY <1>1, <1>2, <1>3, <1>4, NamesApart DEF Naming
<1>7. \A d \in States' : \A k \in Temps : \A l \in Names :
        Now'[k] # NoInode /\ d[l] = Now'[k] => l = k
  BY <1>1, <1>2, <1>3, <1>4, NamesApart DEF Naming
<1>8. Naming'
  BY <1>5, <1>6, <1>7 DEF Naming
<1> QED
  BY <1>3, <1>8 DEF e

\* One directory of the journal becomes the only one.
LEMMA NamingCollapsed ==
  ASSUME TypeOK, Naming, NEW d \in States, journal' = <<d>>
  PROVE  /\ Naming' /\ Now' = d /\ States' = {d}
         /\ journal' \in Seq(Directories) /\ journal' # <<>>
<1>1. d \in Directories
  BY Directory
<1>2. journal' \in Seq(Directories) /\ journal' # <<>> /\ Len(journal') = 1 /\ journal'[1] = d
  BY <1>1
<1>3. Now' = d /\ States' = {d}
  BY <1>2 DEF Now, States
<1> QED
  BY <1>2, <1>3, NamesApart DEF Naming

-----------------------------------------------------------------------------
(* What a step leaves as it was.                                           *)

\* A step of p, as the other processes see it.
Aside(p) ==
  /\ plan' = plan /\ (residue => residue')
  /\ \A q \in Procs \ {p} :
       /\ pc'[q] = pc[q] /\ item'[q] = item[q] /\ ino'[q] = ino[q] /\ sent'[q] = sent[q]
       /\ skipped'[q] = skipped[q] /\ blamed'[q] = blamed[q]
       /\ Opened(q) /\ plan[q].atomic => disk'[ino[q]] = disk[ino[q]]
       /\ \A b \in Targets \cup {Out} : Now'[<<q, b>>] = Now[<<q, b>>]
       /\ \A k \in Nat : <<q, k>> \in published => <<q, k>> \in published'

\* The invariant's clauses about a process outlast the steps of the others.
LEMMA OthersStay ==
  ASSUME IInv, NEW p \in Procs, Aside(p), NEW q \in Procs, q # p
  PROVE  Each(q)'
<1>1. /\ pc'[q] = pc[q] /\ item'[q] = item[q] /\ ino'[q] = ino[q] /\ sent'[q] = sent[q]
      /\ skipped'[q] = skipped[q] /\ blamed'[q] = blamed[q] /\ plan' = plan
      /\ Opened(q)' <=> Opened(q)
      /\ Created(q)' = Created(q) /\ Writing(q)' = Writing(q)
      /\ Stale(q)' <=> Stale(q)
  BY DEF Aside, Opened, Created, Target, Writing, Stale
<1>2. Each(q) /\ TypeOK
  BY DEF IInv
<1>3. Placed(q)'
  BY <1>1, <1>2 DEF Each, Placed
<1>4. Filled(q)'
  BY <1>1, <1>2 DEF Each, Filled, Aside
<1>5. Kept(q)'
  <2>1. Opened(q) /\ plan[q].atomic => Now'[Created(q)] = Now[Created(q)]
    <3> SUFFICES ASSUME Opened(q), plan[q].atomic PROVE Now'[Created(q)] = Now[Created(q)]
      OBVIOUS
    <3>1. PICK b \in Targets \cup {Out} : Created(q) = <<q, b>>
      BY <1>2, CreatedTyped DEF Each, Placed
    <3> QED
      BY <3>1 DEF Aside
  <2> QED
    BY <1>1, <1>2, <2>1 DEF Each, Kept
<1>6. Tidy(q)'
  BY <1>1, <1>2 DEF Each, Tidy, Aside
<1>7. Told(q)'
  <2>1. \A k \in Nat : <<q, k>> \in published => <<q, k>> \in published'
    BY DEF Aside
  <2>2. item[q] \in Nat
    BY <1>2 DEF TypeOK
  <2> QED
    BY <1>1, <1>2, <2>1, <2>2 DEF Each, Told, Writing
<1> QED
  BY <1>3, <1>4, <1>5, <1>6, <1>7 DEF Each

\* No name is added and no file opened.
LEMMA OwnedStays ==
  ASSUME IInv, plan' = plan,
         \A q \in Procs : /\ ino'[q] \in {ino[q], NoInode}
                          /\ Opened(q)' => Opened(q) /\ ino'[q] = ino[q] /\ item'[q] = item[q],
         \A d \in States' : \E e \in States : \A t \in Targets : d[t] = e[t],
         \A n \in Temps : Now'[n] \in {Now[n], NoInode}
  PROVE  Owned'
<1> SUFFICES ASSUME NEW q \in Procs, Opened(q)'
             PROVE  /\ \A d \in States' : \A t \in Targets : d[t] = ino'[q] => t = Created(q)'
                    /\ \A n \in Temps : Now'[n] = ino'[q] => n = Created(q)'
                    /\ plan'[q].atomic => \A r \in Procs : ino'[r] = ino'[q] => r = q
  BY DEF Owned
<1>1. Opened(q) /\ ino'[q] = ino[q] /\ Created(q)' = Created(q) /\ ino[q] # NoInode
  BY DEF Created, Target, IInv, Each, Placed
<1> QED
  BY <1>1 DEF IInv, Owned

\* Guarded targets name what they named, and none of the files written.
LEMMA SettledStays ==
  ASSUME IInv, plan' = plan, may' = may,
         \A d \in States' : \E e \in States : \A t \in Targets : Guarded(t) => d[t] = e[t],
         \A d \in States : \A t \in Targets :
           Guarded(t) /\ d[t] # NoInode => disk'[d[t]] = disk[d[t]]
  PROVE  Settled'
<1> SUFFICES ASSUME NEW d \in States', NEW t \in Targets, Guarded(t)
             PROVE  /\ t \in Existing => d[t] # NoInode
                    /\ d[t] # NoInode => /\ IsWhole(disk'[d[t]].cache)
                                         /\ disk'[d[t]].platter = disk'[d[t]].cache
                    /\ Shown(d, t)' \in may[t]
  BY DEF Settled, Guarded, IsWhole
<1>1. PICK e \in States : d[t] = e[t]
  OBVIOUS
<1>2. Shown(d, t)' = Shown(e, t)
  BY <1>1 DEF Shown
<1> QED
  BY <1>1, <1>2 DEF IInv, Settled

-----------------------------------------------------------------------------
(* The run fails before its commit.                                        *)

\* A write changes one inode's cache, to the writer's own bytes.
LEMMA PutTyped ==
  ASSUME TypeOK, NEW i \in Inodes, NEW p \in Procs, NEW n \in 0..Chunks, Put(i, Writing(p), n)
  PROVE  /\ disk' \in [Inodes -> [cache : Contents, platter : Contents]]
         /\ \A j \in Inodes : j # i => disk'[j] = disk[j]
         /\ disk'[i].platter = disk[i].platter
         /\ disk[i].cache.of = Writing(p) => disk'[i].cache = Bytes(Writing(p), n)
<1>1. disk \in [Inodes -> [cache : Contents, platter : Contents]]
  BY DEF TypeOK
<1>2. Writing(p) \in Procs \X Nat
  BY DEF TypeOK, Writing
<1>3. Bytes(Writing(p), n) \in Contents /\ Bytes(Mixed, 0) \in Contents
  <2>1. 0 \in 0..Chunks
    BY BoundsTyped
  <2> QED
    BY <1>2, <2>1 DEF Bytes, Contents
<1>4. Wrote(disk[i].cache, Writing(p), n) \in Contents
  BY <1>3 DEF Wrote
<1>5. disk' = [disk EXCEPT ![i] = [disk[i] EXCEPT !.cache = Wrote(disk[i].cache, Writing(p), n)]]
  BY <1>1 DEF Put
<1>6. [disk[i] EXCEPT !.cache = Wrote(disk[i].cache, Writing(p), n)]
         \in [cache : Contents, platter : Contents]
  BY <1>1, <1>4
<1>7. disk' \in [Inodes -> [cache : Contents, platter : Contents]]
  BY <1>1, <1>5, <1>6
<1>8. \A j \in Inodes : j # i => disk'[j] = disk[j]
  BY <1>1, <1>5
<1>9. disk'[i].platter = disk[i].platter
      /\ disk'[i].cache = Wrote(disk[i].cache, Writing(p), n)
  BY <1>1, <1>5
<1> QED
  BY <1>7, <1>8, <1>9 DEF Wrote

\* Bytes written through p's own inode are seen by nobody else.
LEMMA OwnInode ==
  ASSUME IInv, NEW p \in Procs, Opened(p),
         \A j \in Inodes : j # ino[p] => disk'[j] = disk[j]
  PROVE  /\ ino[p] \in Inodes
         /\ \A q \in Procs : q # p /\ Opened(q) /\ plan[q].atomic => disk'[ino[q]] = disk[ino[q]]
         /\ \A d \in States : \A t \in Targets :
              Guarded(t) /\ d[t] # NoInode => disk'[d[t]] = disk[d[t]]
<1>1. TypeOK /\ Owned /\ \A q \in Procs : Placed(q)
  BY DEF IInv, Each
<1>2. \A q \in Procs : Opened(q) => ino[q] \in Inodes
  BY <1>1 DEF TypeOK, Placed
<1>3. \A q \in Procs : q # p /\ Opened(q) /\ plan[q].atomic => ino[q] # ino[p]
  BY <1>1 DEF Owned
<1>4. \A d \in States : \A t \in Targets : Guarded(t) => d[t] # ino[p]
  BY <1>1, GuardedApart
<1>5. \A d \in States : \A t \in Targets : d[t] = NoInode \/ d[t] \in Inodes
  BY <1>1, Directory, NamesApart
<1> QED
  BY <1>2, <1>3, <1>4, <1>5

\* A run that is given up removes its temporary file, by name, and nothing else.
LEMMA AbandonStep ==
  ASSUME IInv, NEW p \in Procs, NEW owns \in BOOLEAN, Abandon(p, owns),
         pc[p] \in {"next", "created", "open", "flushed", "synced"},
         item[p] <= Len(plan[p].items) \/ plan[p].route = "split",
         owns \/ residue \/ \A b \in Targets \cup {Out} : Now[<<p, b>>] = NoInode,
         faults' \in Nat, blamed' \in [Procs -> BOOLEAN],
         \A q \in Procs : q # p => blamed'[q] = blamed[q],
         blamed'[p] \/ Stale(p)
  PROVE  IInv'
<1> DEFINE removed == owns /\ plan[p].atomic /\ Now[Created(p)] # NoInode
<1>1. TypeOK /\ Naming /\ Owned /\ Settled /\ \A q \in Procs : Each(q)
  BY DEF IInv
<1>2. /\ plan' = plan /\ item' = item /\ sent' = sent /\ skipped' = skipped
      /\ published' = published /\ may' = may /\ crashes' = crashes
      /\ pc' = [pc EXCEPT ![p] = "failed"] /\ ino' = [ino EXCEPT ![p] = NoInode]
  BY DEF Abandon
<1>3. /\ pc'[p] = "failed" /\ ino'[p] = NoInode
      /\ \A q \in Procs : q # p => pc'[q] = pc[q] /\ ino'[q] = ino[q]
      /\ \A q \in Procs : Opened(q)' => q # p /\ Opened(q)
  BY <1>1, <1>2 DEF TypeOK, Opened
<1>4. plan[p].atomic => /\ Created(p) \in Temps
                        /\ \E b \in Targets \cup {Out} : Created(p) = <<p, b>>
  BY <1>1, CreatedTyped
<1>5. /\ Naming' /\ journal' \in Seq(Directories) /\ journal' # <<>> /\ residue' \in BOOLEAN
      /\ residue => residue'
      /\ \A d \in States' : \E e \in States : \A t \in Targets : d[t] = e[t]
      /\ \A n \in Names : Now'[n] = Now[n] \/ (Now'[n] = NoInode /\ n = Created(p) /\ removed)
      /\ removed => residue' \/ Now'[Created(p)] = NoInode
  <2>1. CASE removed /\ Link(Created(p), NoInode) /\ UNCHANGED residue
    <3>1. Created(p) \in Temps
      BY <1>4, <2>1
    <3>2. /\ Naming' /\ Now' = [Now EXCEPT ![Created(p)] = NoInode] /\ States' = States \cup {Now'}
          /\ journal' \in Seq(Directories) /\ journal' # <<>>
      BY <1>1, <2>1, <3>1, NamingUnlinked
    <3>3. Now \in States /\ Now \in Directories
      BY <1>1, Directory
    <3>4. \A n \in Names : Now'[n] = IF n = Created(p) THEN NoInode ELSE Now[n]
      BY <3>2, <3>3 DEF Directories
    <3>5. \A t \in Targets : Now'[t] = Now[t]
      BY <3>1, <3>4, NamesApart
    <3>6. \A d \in States' : \E e \in States : \A t \in Targets : d[t] = e[t]
      <4> SUFFICES ASSUME NEW d \in States'
                   PROVE  \E e \in States : \A t \in Targets : d[t] = e[t]
        OBVIOUS
      <4>1. CASE d \in States
        BY <4>1
      <4>2. CASE d = Now'
        BY <3>3, <3>5, <4>2
      <4> QED
        BY <3>2, <4>1, <4>2
    <3>7. Created(p) \in Names
      BY <3>1, NamesApart
    <3> QED
      BY <1>1, <2>1, <3>2, <3>4, <3>6, <3>7 DEF TypeOK
  <2>2. CASE UNCHANGED journal /\ residue' \in BOOLEAN /\ (residue => residue') /\ (removed => residue')
    <3>1. Naming' /\ States' = States /\ Now' = Now
      BY <1>1, <2>2 DEF Naming, States, Now
    <3> QED
      BY <1>1, <2>2, <3>1 DEF TypeOK
  <2>3. residue \in BOOLEAN
    BY <1>1 DEF TypeOK
  <2> QED
    BY <2>1, <2>2, <2>3 DEF Abandon
<1> HIDE DEF removed
<1>6. /\ disk' \in [Inodes -> [cache : Contents, platter : Contents]]
      /\ \A q \in Procs : q # p /\ Opened(q) /\ plan[q].atomic => disk'[ino[q]] = disk[ino[q]]
      /\ \A d \in States : \A t \in Targets :
           Guarded(t) /\ d[t] # NoInode => disk'[d[t]] = disk[d[t]]
  <2>1. CASE UNCHANGED disk
    BY <1>1, <2>1 DEF TypeOK
  <2>2. CASE ino[p] # NoInode /\ Put(ino[p], Writing(p), sent[p])
    <3>1. Opened(p) /\ ino[p] \in Inodes /\ sent[p] \in 0..Chunks
      BY <1>1, <2>2 DEF Each, Placed, TypeOK
    <3>2. /\ disk' \in [Inodes -> [cache : Contents, platter : Contents]]
          /\ \A j \in Inodes : j # ino[p] => disk'[j] = disk[j]
      BY <1>1, <2>2, <3>1, PutTyped
    <3> QED
      BY <3>1, <3>2, OwnInode
  <2> QED
    BY <2>1, <2>2 DEF Abandon
<1>7. TypeOK'
  BY <1>1, <1>2, <1>5, <1>6 DEF TypeOK
<1>8. Aside(p)
  <2>1. \A q \in Procs : q # p => \A b \in Targets \cup {Out} : Now'[<<q, b>>] = Now[<<q, b>>]
    <3> SUFFICES ASSUME NEW q \in Procs, q # p, NEW b \in Targets \cup {Out}
                 PROVE  Now'[<<q, b>>] = Now[<<q, b>>]
      OBVIOUS
    <3>1. <<q, b>> \in Names
      BY NamesApart
    <3>2. removed => <<q, b>> # Created(p)
      BY <1>4 DEF removed
    <3> QED
      BY <1>5, <3>1, <3>2
  <2> QED
    BY <1>2, <1>3, <1>5, <1>6, <2>1 DEF Aside
<1>9. Owned'
  <2>1. \A n \in Temps : Now'[n] \in {Now[n], NoInode}
    BY <1>5, NamesApart
  <2> QED
    BY <1>2, <1>3, <1>5, <2>1, OwnedStays
<1>10. Settled'
  BY <1>2, <1>5, <1>6, SettledStays
<1>11. Each(p)'
  <2>1. ~Opened(p)' /\ pc'[p] = "failed"
    BY <1>3
  <2>2. Placed(p)'
    BY <1>1, <1>2, <1>3, <2>1 DEF Each, Placed
  <2>3. Filled(p)' /\ Kept(p)'
    BY <2>1 DEF Filled, Kept
  <2>4. Tidy(p)'
    <3>1. ASSUME ~residue', NEW b \in Targets \cup {Out} PROVE Now'[<<p, b>>] = NoInode
      <4>1. <<p, b>> \in Names /\ ~residue
        BY <1>5, <3>1, NamesApart
      <4>2. CASE Now[<<p, b>>] = NoInode
        BY <1>5, <4>1, <4>2
      <4>3. CASE Now[<<p, b>>] # NoInode
        <5>1. plan[p].atomic /\ <<p, b>> = Created(p)
          BY <1>1, <4>1, <4>3 DEF Each, Tidy
        <5>2. removed
          BY <4>1, <4>3, <5>1 DEF removed
        <5> QED
          BY <1>5, <3>1, <5>1, <5>2
      <4> QED
        BY <4>2, <4>3
    <3> QED
      BY <3>1 DEF Tidy
  <2>5. Told(p)'
    BY <1>1, <1>2, <1>3 DEF Each, Told, Stale
  <2> QED
    BY <2>2, <2>3, <2>4, <2>5 DEF Each
<1> QED
  BY <1>5, <1>7, <1>8, <1>9, <1>10, <1>11, OthersStay DEF IInv

-----------------------------------------------------------------------------
(* The steps that add no name and open no file.                            *)

\* The parts make the invariant again.
LEMMA Assembled ==
  ASSUME IInv, NEW p \in Procs, TypeOK', Naming', Owned', Settled', Aside(p), Each(p)'
  PROVE  IInv'
BY OthersStay DEF IInv

\* A step of p that adds no name, opens no file and writes only its own.
LEMMA QuietStep ==
  ASSUME IInv, NEW p \in Procs, plan' = plan, may' = may, residue => residue', TypeOK',
         \/ journal' = journal
         \/ \E b \in Targets \cup {Out} : Link(<<p, b>>, NoInode),
         \A q \in Procs \ {p} :
           /\ pc'[q] = pc[q] /\ item'[q] = item[q] /\ ino'[q] = ino[q] /\ sent'[q] = sent[q]
           /\ skipped'[q] = skipped[q] /\ blamed'[q] = blamed[q]
           /\ \A k \in Nat : <<q, k>> \in published => <<q, k>> \in published',
         ino'[p] \in {ino[p], NoInode},
         Opened(p)' => Opened(p) /\ ino'[p] = ino[p] /\ item'[p] = item[p],
         disk' = disk \/ (Opened(p) /\ \A j \in Inodes : j # ino[p] => disk'[j] = disk[j]),
         Each(p)'
  PROVE  IInv'
<1>1. TypeOK /\ Naming
  BY DEF IInv
<1>2. /\ Naming' /\ \A d \in States' : \E e \in States : \A t \in Targets : d[t] = e[t]
      /\ \A n \in Names : Now'[n] \in {Now[n], NoInode}
      /\ \A q \in Procs \ {p} : \A b \in Targets \cup {Out} : Now'[<<q, b>>] = Now[<<q, b>>]
  <2>1. CASE journal' = journal
    BY <1>1, <2>1 DEF Naming, States, Now
  <2>2. CASE \E b \in Targets \cup {Out} : Link(<<p, b>>, NoInode)
    <3>1. PICK b \in Targets \cup {Out} : Link(<<p, b>>, NoInode)
      BY <2>2
    <3>2. <<p, b>> \in Temps
      BY NamesApart
    <3>3. Naming' /\ Now' = [Now EXCEPT ![<<p, b>>] = NoInode] /\ States' = States \cup {Now'}
      BY <1>1, <3>1, <3>2, NamingUnlinked
    <3>4. Now \in States /\ Now \in Directories
      BY <1>1, Directory
    <3>5. \A n \in Names : Now'[n] = IF n = <<p, b>> THEN NoInode ELSE Now[n]
      BY <3>3, <3>4 DEF Directories
    <3>6. \A t \in Targets : Now'[t] = Now[t]
      BY <3>2, <3>5, NamesApart
    <3>7. \A q \in Procs \ {p} : \A c \in Targets \cup {Out} : Now'[<<q, c>>] = Now[<<q, c>>]
      BY <3>5, NamesApart
    <3>8. \A d \in States' : \E e \in States : \A t \in Targets : d[t] = e[t]
      <4>1. States' = States \cup {Now'} /\ Now \in States
        BY <3>3, <3>4
      <4> QED
        BY <3>6, <4>1
    <3>9. \A n \in Names : Now'[n] \in {Now[n], NoInode}
      BY <3>5
    <3> QED
      BY <3>3, <3>7, <3>8, <3>9
  <2> QED
    BY <2>1, <2>2
<1>3. /\ \A q \in Procs : q # p /\ Opened(q) /\ plan[q].atomic => disk'[ino[q]] = disk[ino[q]]
      /\ \A d \in States : \A t \in Targets :
           Guarded(t) /\ d[t] # NoInode => disk'[d[t]] = disk[d[t]]
  BY OwnInode
<1>4. Owned'
  <2>1. \A n \in Temps : Now'[n] \in {Now[n], NoInode}
    BY <1>2, NamesApart
  <2>2. \A q \in Procs : /\ ino'[q] \in {ino[q], NoInode}
                         /\ Opened(q)' => Opened(q) /\ ino'[q] = ino[q] /\ item'[q] = item[q]
    BY DEF Opened
  <2> QED
    BY <1>2, <2>1, <2>2, OwnedStays
<1>5. Settled'
  BY <1>2, <1>3, SettledStays
<1>6. Aside(p)
  BY <1>2, <1>3 DEF Aside
<1> QED
  BY <1>2, <1>4, <1>5, <1>6, Assembled

\* One name of p is removed, the others stay.
LEMMA UnlinkTyped ==
  ASSUME IInv, NEW p \in Procs, NEW b \in Targets \cup {Out}, Link(<<p, b>>, NoInode)
  PROVE  /\ journal' \in Seq(Directories) /\ journal' # <<>>
         /\ Now'[<<p, b>>] = NoInode
         /\ \A c \in Targets \cup {Out} : c # b => Now'[<<p, c>>] = Now[<<p, c>>]
<1>1. <<p, b>> \in Temps /\ TypeOK /\ Naming
  BY NamesApart DEF IInv
<1>2. Now' = [Now EXCEPT ![<<p, b>>] = NoInode]
      /\ journal' \in Seq(Directories) /\ journal' # <<>>
  BY <1>1, NamingUnlinked
<1>3. Now \in Directories
  BY <1>1, Directory
<1> QED
  BY <1>2, <1>3, NamesApart DEF Directories

\* File::create's file gets its mode and owner, a stale writer its Drop.
LEMMA PrepareStep ==
  ASSUME IInv, NEW p \in Procs, pc[p] = "created", pc' = [pc EXCEPT ![p] = "open"],
         IF Stale(p) THEN Link(Created(p), NoInode) ELSE UNCHANGED journal,
         UNCHANGED <<disk, plan, item, ino, sent, skipped, blamed,
                     published, may, faults, crashes, residue>>
  PROVE  IInv'
<1>1. TypeOK /\ Each(p)
  BY DEF IInv
<1>2. Opened(p) /\ pc'[p] = "open" /\ Opened(p)' /\ \A q \in Procs \ {p} : pc'[q] = pc[q]
  BY <1>1 DEF Opened, TypeOK
<1>3. plan[p].atomic /\ item[p] <= Len(plan[p].items)
  BY <1>1, <1>2 DEF Each, Placed
<1>4. PICK b \in Targets \cup {Out} : Created(p) = <<p, b>>
  BY <1>1, <1>3, CreatedTyped
<1>5. Created(p)' = Created(p) /\ Writing(p)' = Writing(p)
  BY DEF Created, Target, Writing
<1>6. /\ journal' \in Seq(Directories) /\ journal' # <<>>
      /\ \/ journal' = journal /\ Now' = Now
         \/ Link(<<p, b>>, NoInode) /\ Stale(p) /\ Now'[Created(p)] = NoInode
  BY <1>1, <1>4, UnlinkTyped DEF TypeOK, Now
<1>7. TypeOK'
  BY <1>1, <1>6 DEF TypeOK
<1>8. Stale(p)' <=> Stale(p)
  BY DEF Stale
<1>9. Kept(p)'
  BY <1>1, <1>2, <1>3, <1>5, <1>6, <1>8 DEF Each, Kept
<1>10. Tidy(p)'
  <2>1. residue \/ \A c \in Targets \cup {Out} : Now'[<<p, c>>] # NoInode => <<p, c>> = Created(p)
    BY <1>1, <1>4, <1>6, UnlinkTyped DEF Each, Tidy
  <2> QED
    BY <1>2, <1>3, <1>5, <2>1 DEF Tidy
<1>11. Each(p)'
  BY <1>1, <1>2, <1>3, <1>5, <1>9, <1>10 DEF Each, Placed, Filled, Told
<1> QED
  BY <1>2, <1>6, <1>7, <1>11, QuietStep

\* One write, buffered or not.
LEMMA WriteStep ==
  ASSUME IInv, NEW p \in Procs, pc[p] = "open", sent[p] < Chunks,
         sent' = [sent EXCEPT ![p] = @ + 1],
         \/ Put(ino[p], Writing(p), sent[p] + 1)
         \/ plan[p].route # "edit" /\ Put(ino[p], Writing(p), sent[p])
         \/ plan[p].route # "edit" /\ UNCHANGED disk,
         UNCHANGED <<journal, plan, pc, item, ino, skipped, blamed,
                     published, may, faults, crashes, residue>>
  PROVE  IInv'
<1>1. TypeOK /\ Each(p) /\ Opened(p)
  BY DEF IInv, Opened
<1>2. /\ ino[p] \in Inodes /\ sent[p] \in 0..Chunks /\ sent[p] + 1 \in 0..Chunks
      /\ sent'[p] = sent[p] + 1 /\ \A q \in Procs \ {p} : sent'[q] = sent[q]
      /\ sent' \in [Procs -> 0..Chunks]
  BY <1>1, BoundsTyped DEF TypeOK, Each, Placed
<1>3. /\ disk' \in [Inodes -> [cache : Contents, platter : Contents]]
      /\ disk' = disk \/ \A j \in Inodes : j # ino[p] => disk'[j] = disk[j]
      /\ disk[ino[p]].cache.of = Writing(p) => disk'[ino[p]].cache.of = Writing(p)
      /\ disk[ino[p]].cache.of = Writing(p) /\ plan[p].route = "edit"
           => disk'[ino[p]].cache.n = sent'[p]
  <2>1. CASE disk' = disk /\ plan[p].route # "edit"
    BY <1>1, <2>1 DEF TypeOK
  <2>2. CASE Put(ino[p], Writing(p), sent[p] + 1)
    <3>1. /\ disk' \in [Inodes -> [cache : Contents, platter : Contents]]
          /\ \A j \in Inodes : j # ino[p] => disk'[j] = disk[j]
          /\ disk[ino[p]].cache.of = Writing(p)
               => disk'[ino[p]].cache = Bytes(Writing(p), sent[p] + 1)
      BY <1>1, <1>2, <2>2, PutTyped
    <3> QED
      BY <1>2, <2>2, <3>1 DEF Bytes
  <2>3. CASE plan[p].route # "edit" /\ Put(ino[p], Writing(p), sent[p])
    <3>1. /\ disk' \in [Inodes -> [cache : Contents, platter : Contents]]
          /\ \A j \in Inodes : j # ino[p] => disk'[j] = disk[j]
          /\ disk[ino[p]].cache.of = Writing(p)
               => disk'[ino[p]].cache = Bytes(Writing(p), sent[p])
      BY <1>1, <1>2, <2>3, PutTyped
    <3> QED
      BY <1>2, <2>3, <3>1 DEF Bytes
  <2> QED
    BY <2>1, <2>2, <2>3
<1>4. TypeOK'
  BY <1>1, <1>2, <1>3 DEF TypeOK
<1>5. /\ Created(p)' = Created(p) /\ Writing(p)' = Writing(p) /\ Now' = Now
      /\ (Opened(p))' /\ pc'[p] = "open"
  BY <1>1 DEF Created, Target, Writing, Now, Opened
<1>6. Filled(p)'
  BY <1>1, <1>3, <1>5 DEF Each, Filled
<1>7. Tidy(p)'
  BY <1>1, <1>5 DEF Each, Tidy
<1>8. Each(p)'
  BY <1>1, <1>5, <1>6, <1>7 DEF Each, Placed, Kept, Told, Stale
<1> QED
  BY <1>1, <1>2, <1>3, <1>4, <1>8, QuietStep

\* An item is given up after its file was opened: the writer goes stale.
LEMMA SkipStep ==
  ASSUME IInv, NEW p \in Procs, Skip(p)
  PROVE  IInv'
<1>1. TypeOK /\ Each(p) /\ Opened(p)
  BY DEF IInv, Opened, Skip
<1>2. /\ pc'[p] = "next" /\ ino'[p] = NoInode /\ item'[p] = item[p] + 1
      /\ skipped'[p] = skipped[p] \cup {item[p]} /\ item[p] \in Nat \ {0}
      /\ \A q \in Procs \ {p} : /\ pc'[q] = pc[q] /\ ino'[q] = ino[q] /\ item'[q] = item[q]
                                /\ skipped'[q] = skipped[q]
  BY <1>1 DEF Skip, TypeOK
<1>3. TypeOK'
  <2>1. skipped' \in [Procs -> SUBSET Nat] /\ item' \in [Procs -> Nat \ {0}]
    BY <1>1 DEF Skip, TypeOK
  <2> QED
    BY <1>1, <2>1 DEF Skip, TypeOK
<1>4. plan[p].route = "split" /\ ~(Opened(p))' /\ Now' = Now /\ (Stale(p))' /\ plan' = plan
  BY <1>2 DEF Skip, Opened, Now, Stale
<1>5. Placed(p)'
  BY <1>2, <1>4 DEF Placed
<1>6. Tidy(p)'
  <2>1. plan[p].atomic => Created(p)' = Created(p)
    BY <1>4 DEF Created
  <2> QED
    BY <1>1, <1>2, <1>4, <2>1 DEF Each, Tidy, Skip
<1>7. Told(p)'
  BY <1>1, <1>2 DEF Each, Told, Skip
<1>8. Each(p)'
  BY <1>4, <1>5, <1>6, <1>7 DEF Each, Filled, Kept
<1> QED
  BY <1>2, <1>3, <1>4, <1>8, QuietStep DEF Skip

\* commit, as far as the buffer.
LEMMA FlushStep ==
  ASSUME IInv, NEW p \in Procs, pc[p] = "open", sent[p] = Chunks,
         plan[p].route = "edit" => ~plan[p].atomic,
         Put(ino[p], Writing(p), Chunks),
         IF plan[p].atomic
         THEN /\ pc' = [pc EXCEPT ![p] = "flushed"]
              /\ UNCHANGED <<item, ino, published>>
         ELSE /\ pc' = [pc EXCEPT ![p] = "next"]
              /\ item' = [item EXCEPT ![p] = @ + 1]
              /\ ino' = [ino EXCEPT ![p] = NoInode]
              /\ published' = published \cup {Writing(p)},
         UNCHANGED <<journal, plan, sent, skipped, blamed, may, faults, crashes, residue>>
  PROVE  IInv'
<1>1. TypeOK /\ Each(p) /\ Opened(p) /\ ino[p] \in Inodes /\ Chunks \in 0..Chunks
  BY BoundsTyped DEF IInv, Opened, TypeOK, Each, Placed
<1>2. /\ disk' \in [Inodes -> [cache : Contents, platter : Contents]]
      /\ \A j \in Inodes : j # ino[p] => disk'[j] = disk[j]
      /\ disk[ino[p]].cache.of = Writing(p) => disk'[ino[p]].cache = Bytes(Writing(p), Chunks)
  BY <1>1, PutTyped
<1>3. /\ Now' = Now /\ item[p] \in Nat \ {0} /\ Writing(p) \in Procs \X Nat
      /\ plan[p].atomic \in BOOLEAN
  BY <1>1, PlanTyped DEF Now, TypeOK, Writing
<1>4. CASE plan[p].atomic
  <2>1. /\ pc' = [pc EXCEPT ![p] = "flushed"] /\ UNCHANGED <<item, ino, published>>
    BY <1>4
  <2>2. TypeOK'
    BY <1>1, <1>2, <2>1 DEF TypeOK
  <2>3. /\ pc'[p] = "flushed" /\ (Opened(p))' /\ \A q \in Procs \ {p} : pc'[q] = pc[q]
        /\ Created(p)' = Created(p) /\ Writing(p)' = Writing(p)
    BY <1>1, <2>1 DEF TypeOK, Opened, Created, Target, Writing
  <2>4. Filled(p)'
    BY <1>1, <1>2, <1>4, <2>3, <2>1 DEF Each, Filled, Bytes
  <2>5. Tidy(p)'
    BY <1>1, <1>3, <2>3 DEF Each, Tidy
  <2>6. Each(p)'
    BY <1>1, <1>3, <1>4, <2>1, <2>3, <2>4, <2>5 DEF Each, Placed, Kept, Told, Stale
  <2> QED
    BY <1>1, <1>2, <2>1, <2>2, <2>3, <2>6, QuietStep
<1>5. CASE ~plan[p].atomic
  <2>1. /\ pc' = [pc EXCEPT ![p] = "next"] /\ item' = [item EXCEPT ![p] = item[p] + 1]
        /\ ino' = [ino EXCEPT ![p] = NoInode] /\ published' = published \cup {Writing(p)}
    BY <1>5
  <2>2. TypeOK'
    BY <1>1, <1>2, <1>3, <2>1 DEF TypeOK
  <2>3. /\ pc'[p] = "next" /\ ino'[p] = NoInode /\ item'[p] = item[p] + 1
        /\ \A q \in Procs \ {p} : pc'[q] = pc[q] /\ ino'[q] = ino[q] /\ item'[q] = item[q]
    BY <1>1, <2>1 DEF TypeOK
  <2>4. ~(Opened(p))'
    BY <2>3 DEF Opened
  <2>5. Placed(p)' /\ Filled(p)' /\ Kept(p)'
    BY <1>1, <2>3, <2>4 DEF Each, Placed, Filled, Kept
  <2>6. Tidy(p)'
    BY <1>1, <1>3, <1>5 DEF Each, Tidy
  <2>7. Told(p)'
    BY <1>1, <1>3, <2>1, <2>3 DEF Each, Told, Writing
  <2>8. Each(p)'
    BY <2>5, <2>6, <2>7 DEF Each
  <2> QED
    BY <1>1, <1>2, <2>1, <2>2, <2>3, <2>4, <2>8, QuietStep
<1> QED
  BY <1>3, <1>4, <1>5

\* sync_all makes the platter agree with the cache.
LEMMA SyncStep ==
  ASSUME IInv, NEW p \in Procs,
         \/ pc[p] = "flushed"
         \/ /\ pc[p] = "open" /\ sent[p] = Chunks
            /\ plan[p].route = "edit" /\ plan[p].atomic,
         disk' = [disk EXCEPT ![ino[p]].platter = disk[ino[p]].cache],
         pc' = [pc EXCEPT ![p] = "synced"],
         UNCHANGED <<journal, plan, item, ino, sent, skipped, blamed,
                     published, may, faults, crashes, residue>>
  PROVE  IInv'
<1>1. TypeOK /\ Each(p) /\ Opened(p) /\ ino[p] \in Inodes /\ plan[p].atomic
  BY DEF IInv, Opened, TypeOK, Each, Placed
<1>2. disk \in [Inodes -> [cache : Contents, platter : Contents]]
  BY <1>1 DEF TypeOK
<1>3. disk' = [disk EXCEPT ![ino[p]] = [disk[ino[p]] EXCEPT !.platter = disk[ino[p]].cache]]
  BY <1>1, <1>2
<1>4. [disk[ino[p]] EXCEPT !.platter = disk[ino[p]].cache] \in [cache : Contents, platter : Contents]
  BY <1>1, <1>2
<1>5. /\ disk' \in [Inodes -> [cache : Contents, platter : Contents]]
      /\ \A j \in Inodes : j # ino[p] => disk'[j] = disk[j]
      /\ disk'[ino[p]].cache = disk[ino[p]].cache /\ disk'[ino[p]].platter = disk[ino[p]].cache
  BY <1>1, <1>2, <1>3, <1>4
<1>6. TypeOK'
  BY <1>1, <1>5 DEF TypeOK
<1>7. /\ pc'[p] = "synced" /\ (Opened(p))' /\ \A q \in Procs \ {p} : pc'[q] = pc[q]
      /\ Created(p)' = Created(p) /\ Writing(p)' = Writing(p) /\ Now' = Now
  BY <1>1 DEF TypeOK, Opened, Created, Target, Writing, Now
<1>8. Filled(p)'
  BY <1>1, <1>5, <1>7 DEF Each, Filled
<1>9. Tidy(p)'
  BY <1>1, <1>7 DEF Each, Tidy
<1>10. Each(p)'
  BY <1>1, <1>7, <1>8, <1>9 DEF Each, Placed, Kept, Told, Stale
<1> QED
  BY <1>1, <1>5, <1>6, <1>7, <1>10, QuietStep

\* The run ends and drops its sink.
LEMMA FinishStep ==
  ASSUME IInv, NEW p \in Procs, Finish(p)
  PROVE  IInv'
<1>1. TypeOK /\ Each(p) /\ pc[p] = "next"
  BY DEF IInv, Finish
<1>2. /\ pc'[p] = "ok" /\ ~(Opened(p))' /\ ~Opened(p)
      /\ \A q \in Procs \ {p} : pc'[q] = pc[q]
      /\ UNCHANGED <<disk, plan, item, ino, sent, skipped, blamed, published, may,
                     faults, crashes, residue>>
  BY <1>1 DEF Finish, TypeOK, Opened
<1>3. /\ journal' \in Seq(Directories) /\ journal' # <<>>
      /\ \/ journal' = journal /\ Now' = Now /\ ~(Stale(p) /\ plan[p].atomic)
         \/ /\ Link(<<p, Out>>, NoInode) /\ Stale(p) /\ plan[p].atomic
            /\ Now'[<<p, Out>>] = NoInode
  BY <1>1, UnlinkTyped DEF Finish, TypeOK, Now
<1>4. TypeOK'
  BY <1>1, <1>2, <1>3 DEF TypeOK, Finish
<1>5. Tidy(p)'
  <2>1. SUFFICES ASSUME ~residue, NEW b \in Targets \cup {Out} PROVE Now'[<<p, b>>] = NoInode
    BY <1>2 DEF Tidy
  <2>2. Now[<<p, b>>] # NoInode => plan[p].atomic /\ <<p, b>> = Created(p) /\ Stale(p)
    BY <1>1, <1>2, <2>1 DEF Each, Tidy
  <2>3. Stale(p) => plan[p].route = "split"
    BY <1>1 DEF Stale, Each, Placed
  <2>4. Now[<<p, b>>] # NoInode => b = Out /\ Stale(p) /\ plan[p].atomic
    BY <2>2, <2>3 DEF Created
  <2>5. CASE b = Out
    BY <1>3, <2>4, <2>5
  <2>6. CASE b # Out
    BY <1>3, <2>4, <2>6, UnlinkTyped
  <2> QED
    BY <2>5, <2>6
<1>6. Told(p)'
  BY <1>1, <1>2 DEF Each, Told, Finish
<1>7. Each(p)'
  BY <1>1, <1>2, <1>5, <1>6 DEF Each, Placed, Filled, Kept
<1> QED
  BY <1>2, <1>3, <1>4, <1>7, QuietStep

\* A process dies with nothing unwound.
LEMMA KillStep ==
  ASSUME IInv, NEW p \in Procs, Kill(p)
  PROVE  IInv'
<1>1. TypeOK /\ Each(p)
  BY DEF IInv
<1>2. /\ pc'[p] = "dead" /\ ino'[p] = NoInode /\ ~(Opened(p))' /\ residue' = TRUE
      /\ \A q \in Procs \ {p} : pc'[q] = pc[q] /\ ino'[q] = ino[q]
  BY <1>1 DEF Kill, TypeOK, Opened
<1>3. TypeOK'
  BY <1>1 DEF Kill, TypeOK
<1>4. Each(p)'
  BY <1>1, <1>2 DEF Kill, Each, Placed, Filled, Kept, Tidy, Told
<1> QED
  BY <1>2, <1>3, <1>4, QuietStep DEF Kill

\* The same command again.
LEMMA RestartStep ==
  ASSUME IInv, NEW p \in Procs, Restart(p)
  PROVE  IInv'
<1>1. TypeOK /\ Each(p) /\ pc[p] = "dead"
  BY DEF IInv, Restart
<1>2. /\ pc'[p] = "next" /\ item'[p] = 1 /\ skipped'[p] = {} /\ ~(Opened(p))' /\ ~Opened(p)
      /\ \A q \in Procs \ {p} : pc'[q] = pc[q] /\ item'[q] = item[q] /\ skipped'[q] = skipped[q]
      /\ \A q \in Procs \ {p} : \A k \in Nat : <<q, k>> \in published => <<q, k>> \in published'
  BY <1>1 DEF Restart, TypeOK, Opened
<1>3. TypeOK'
  BY <1>1 DEF Restart, TypeOK
<1>4. Now' = Now /\ (residue' = residue)
  BY DEF Restart, Now
<1>5. Tidy(p)'
  BY <1>1, <1>2, <1>4 DEF Each, Tidy
<1>6. Each(p)'
  BY <1>1, <1>2, <1>5 DEF Restart, Each, Placed, Filled, Kept, Told
<1> QED
  BY <1>2, <1>3, <1>4, <1>6, QuietStep DEF Restart

-----------------------------------------------------------------------------
(* The steps that do.                                                      *)

\* The rename: the target's new file is whole, and on the platter.
LEMMA MovedStep ==
  ASSUME IInv, NEW p \in Procs, pc[p] = "synced", Moved(p), UNCHANGED <<blamed, faults>>
  PROVE  IInv'
<1>1. TypeOK /\ Naming /\ Owned /\ Settled /\ Each(p) /\ Opened(p)
  BY DEF IInv, Opened
<1>2. /\ plan[p].atomic /\ Target(p) \in Targets /\ Created(p) \in Temps
      /\ ino[p] \in Inodes /\ ino[p] # NoInode /\ Now[Created(p)] = ino[p]
      /\ \E b \in Targets \cup {Out} : Created(p) = <<p, b>>
  <2>1. /\ plan[p].atomic /\ item[p] <= Len(plan[p].items)
        /\ ino[p] # NoInode /\ ino[p] \in Inodes /\ Now[Created(p)] # NoInode
    BY <1>1 DEF Each, Placed, TypeOK, Moved
  <2>2. Now[Created(p)] = ino[p]
    BY <1>1, <2>1 DEF Each, Kept
  <2> QED
    BY <1>1, <2>1, <2>2, PlanTyped, CreatedTyped
<1>3. /\ Naming' /\ Now' = [Now EXCEPT ![Created(p)] = NoInode, ![Target(p)] = ino[p]]
      /\ States' = States \cup {Now'} /\ journal' \in Seq(Directories) /\ journal' # <<>>
  BY <1>1, <1>2, NamingMoved DEF Moved
<1>4. Now \in States /\ Now \in Directories
  BY <1>1, Directory
<1>5. \A n \in Names : Now'[n] = IF n = Target(p) THEN ino[p]
                                 ELSE IF n = Created(p) THEN NoInode ELSE Now[n]
  BY <1>2, <1>3, <1>4, NamesApart DEF Directories
<1>6. /\ UNCHANGED <<disk, plan, item, sent, skipped, crashes, residue, blamed, faults>>
      /\ pc'[p] = "renamed" /\ ino'[p] = NoInode /\ ~(Opened(p))'
      /\ \A q \in Procs \ {p} : pc'[q] = pc[q] /\ ino'[q] = ino[q]
      /\ published' = published \cup {Writing(p)}
      /\ \A t \in Targets : may'[t] = IF t = Target(p) THEN may[t] \cup {Writing(p)} ELSE may[t]
  BY <1>1, <1>2 DEF Moved, Renamed, TypeOK, Opened
<1>7. TypeOK'
  <2>1. Writing(p) \in Procs \X Nat
    BY <1>1 DEF TypeOK, Writing
  <2>2. published' \subseteq Procs \X Nat
    BY <1>1, <1>6, <2>1 DEF TypeOK
  <2>3. may' \in [Targets -> SUBSET ((Procs \X Nat) \cup {Original, Absent, Mixed})]
    BY <1>1, <2>1 DEF Moved, TypeOK
  <2>4. /\ pc' = [pc EXCEPT ![p] = "renamed"] /\ ino' = [ino EXCEPT ![p] = NoInode]
    BY DEF Moved, Renamed
  <2> QED
    BY <1>1, <1>3, <1>6, <2>2, <2>3, <2>4 DEF TypeOK
<1>8. Aside(p)
  <2>1. \A q \in Procs \ {p} : \A b \in Targets \cup {Out} : Now'[<<q, b>>] = Now[<<q, b>>]
    <3> SUFFICES ASSUME NEW q \in Procs \ {p}, NEW b \in Targets \cup {Out}
                 PROVE  Now'[<<q, b>>] = Now[<<q, b>>]
      OBVIOUS
    <3>1. <<q, b>> \in Names /\ <<q, b>> # Target(p)
      BY <1>2, NamesApart
    <3>2. <<q, b>> # Created(p)
      BY <1>2
    <3> QED
      BY <1>5, <3>1, <3>2
  <2> QED
    BY <1>6, <2>1 DEF Aside
<1>9. Owned'
  <2> SUFFICES ASSUME NEW q \in Procs, Opened(q)'
               PROVE  /\ \A d \in States' : \A t \in Targets : d[t] = ino'[q] => t = Created(q)'
                      /\ \A n \in Temps : Now'[n] = ino'[q] => n = Created(q)'
                      /\ plan'[q].atomic => \A r \in Procs : ino'[r] = ino'[q] => r = q
    BY DEF Owned
  <2>1. q # p /\ Opened(q) /\ ino'[q] = ino[q] /\ Created(q)' = Created(q)
    BY <1>6 DEF Opened, Created, Target
  <2>2. ino[q] # ino[p] /\ ino[q] # NoInode
    BY <1>1, <1>2, <2>1 DEF Owned, IInv, Each, Placed
  <2>3. \A t \in Targets : Now'[t] = ino[q] => t = Created(q)
    BY <1>1, <1>2, <1>4, <1>5, <2>1, <2>2, NamesApart DEF Owned
  <2>4. \A d \in States' : \A t \in Targets : d[t] = ino[q] => t = Created(q)
    BY <1>1, <1>3, <2>1, <2>3 DEF Owned
  <2>5. \A n \in Temps : Now'[n] = ino[q] => n = Created(q)
    BY <1>1, <1>2, <1>5, <2>1, <2>2, NamesApart DEF Owned
  <2>6. plan[q].atomic => \A r \in Procs : ino'[r] = ino[q] => r = q
    BY <1>1, <1>6, <2>1, <2>2 DEF Owned
  <2> QED
    BY <1>6, <2>1, <2>4, <2>5, <2>6
<1>10. Settled'
  <2> SUFFICES ASSUME NEW d \in States', NEW t \in Targets, Guarded(t)
               PROVE  /\ t \in Existing => d[t] # NoInode
                      /\ d[t] # NoInode => /\ IsWhole(disk[d[t]].cache)
                                           /\ disk[d[t]].platter = disk[d[t]].cache
                      /\ Shown(d, t) \in may'[t]
    BY <1>6 DEF Settled, Guarded, IsWhole, Shown
  <2>1. may[t] \subseteq may'[t]
    BY <1>6
  <2>2. CASE d \in States
    BY <1>1, <2>1, <2>2 DEF Settled
  <2>3. CASE d = Now' /\ t # Target(p)
    <3>1. d[t] = Now[t]
      BY <1>2, <1>5, <2>3, NamesApart
    <3>2. Shown(d, t) = Shown(Now, t)
      BY <3>1 DEF Shown
    <3> QED
      BY <1>1, <1>4, <2>1, <3>1, <3>2 DEF Settled
  <2>4. CASE d = Now' /\ t = Target(p)
    <3>1. d[t] = ino[p]
      BY <1>5, <2>4, NamesApart
    <3>2. /\ disk[ino[p]].cache.of = Writing(p) /\ disk[ino[p]].cache.n = Chunks
          /\ disk[ino[p]].platter = disk[ino[p]].cache
      BY <1>1, <1>2 DEF Each, Filled
    <3>3. Writing(p) # Mixed
      BY DEF Writing, Mixed
    <3>4. Shown(d, t) \in may'[t]
      BY <1>2, <1>6, <2>4, <3>1, <3>2 DEF Shown
    <3> QED
      BY <1>2, <3>1, <3>2, <3>3, <3>4 DEF IsWhole
  <2> QED
    BY <1>3, <2>2, <2>3, <2>4
<1>11. Tidy(p)'
  <2>1. SUFFICES ASSUME ~residue, NEW b \in Targets \cup {Out} PROVE Now'[<<p, b>>] = NoInode
    BY <1>6 DEF Tidy
  <2>2. Now[<<p, b>>] # NoInode => <<p, b>> = Created(p)
    BY <1>1, <2>1 DEF Each, Tidy
  <2> QED
    BY <1>2, <1>5, <2>2, NamesApart
<1>12. Each(p)'
  <2>1. Writing(p)' = Writing(p)
    BY <1>6 DEF Writing
  <2> QED
    BY <1>1, <1>2, <1>6, <1>11, <2>1 DEF Each, Placed, Filled, Kept, Told
<1> QED
  BY <1>3, <1>7, <1>8, <1>9, <1>10, <1>12, Assembled

\* The directory is synced, or it is not.
LEMMA SyncParentStep ==
  ASSUME IInv, NEW p \in Procs, SyncParent(p)
  PROVE  IInv'
<1>1. TypeOK /\ Naming /\ Settled /\ Each(p) /\ pc[p] = "renamed" /\ ~Opened(p)
  BY DEF IInv, SyncParent, Opened
<1>2. /\ pc'[p] = "next" /\ item'[p] = item[p] + 1 /\ ~(Opened(p))' /\ item[p] \in Nat \ {0}
      /\ \A q \in Procs \ {p} : pc'[q] = pc[q] /\ item'[q] = item[q]
      /\ UNCHANGED <<disk, plan, ino, sent, skipped, blamed, published, faults, crashes, residue>>
  BY <1>1 DEF SyncParent, TypeOK, Opened
<1>3. residue \/ \A b \in Targets \cup {Out} : Now[<<p, b>>] = NoInode
  BY <1>1 DEF Each, Tidy
<1>4. Placed(p)' /\ Filled(p)' /\ Kept(p)'
  BY <1>1, <1>2 DEF Each, Placed, Filled, Kept
<1>5. Told(p)'
  BY <1>1, <1>2 DEF Each, Told, Writing
<1>6. pc' \in [Procs -> {"next", "created", "open", "flushed", "synced", "renamed",
                         "ok", "failed", "dead"}]
      /\ item' \in [Procs -> Nat \ {0}]
  BY <1>1 DEF SyncParent, TypeOK
<1>7. CASE UNCHANGED <<journal, may>>
  <2>1. TypeOK'
    BY <1>1, <1>2, <1>6, <1>7 DEF TypeOK
  <2>2. Tidy(p)'
    BY <1>2, <1>3, <1>7 DEF Tidy, Now
  <2> QED
    BY <1>2, <1>4, <1>5, <1>7, <2>1, <2>2, QuietStep DEF Each
<1>8. CASE journal' = <<Now>> /\ may' = [t \in Targets |-> {Shown(Now, t)}]
  <2>1. Now \in States
    BY <1>1, Directory
  <2>2. /\ Naming' /\ Now' = Now /\ States' = {Now}
        /\ journal' \in Seq(Directories) /\ journal' # <<>>
    BY <1>1, <1>8, <2>1, NamingCollapsed
  <2>3. \A t \in Targets : Shown(Now, t) \in (Procs \X Nat) \cup {Original, Absent, Mixed}
    <3> SUFFICES ASSUME NEW t \in Targets
                 PROVE  Shown(Now, t) \in (Procs \X Nat) \cup {Original, Absent, Mixed}
      OBVIOUS
    <3>1. Now[t] = NoInode \/ Now[t] \in Inodes
      BY <1>1, <2>1, Directory, NamesApart
    <3>2. Now[t] \in Inodes => disk[Now[t]].cache \in Contents
      BY <1>1 DEF TypeOK
    <3> QED
      BY <3>1, <3>2 DEF Shown, Contents
  <2>4. TypeOK'
    BY <1>1, <1>2, <1>6, <1>8, <2>2, <2>3 DEF TypeOK
  <2>5. Tidy(p)'
    BY <1>2, <1>3, <2>2 DEF Tidy
  <2>6. Aside(p)
    BY <1>2, <2>2 DEF Aside
  <2>7. Owned'
    <3>1. \A d \in States' : \E e \in States : \A t \in Targets : d[t] = e[t]
      BY <2>1, <2>2
    <3>2. \A n \in Temps : Now'[n] \in {Now[n], NoInode}
      BY <2>2
    <3>3. \A q \in Procs : Opened(q)' => Opened(q) /\ ino'[q] = ino[q] /\ item'[q] = item[q]
      BY <1>2 DEF Opened
    <3> QED
      BY <1>2, <3>1, <3>2, <3>3, OwnedStays
  <2>8. Settled'
    BY <1>1, <1>2, <1>8, <2>1, <2>2 DEF Settled, Guarded, IsWhole, Shown
  <2> QED
    BY <1>4, <1>5, <2>2, <2>4, <2>5, <2>6, <2>7, <2>8, Assembled DEF Each
<1> QED
  BY <1>7, <1>8 DEF SyncParent

\* Any directory of the journal may come back, any file lose its cache.
LEMMA PowerLossStep ==
  ASSUME IInv, PowerLoss
  PROVE  IInv'
<1>1. TypeOK /\ Naming /\ Settled /\ \A p \in Procs : Each(p)
  BY DEF IInv
<1>2. PICK d \in States : /\ journal' = <<d>>
                          /\ \E lost \in SUBSET {d[n] : n \in Names} :
                               disk' = [i \in Inodes |->
                                  LET b == IF i \in lost THEN disk[i].platter ELSE disk[i].cache
                                  IN [cache |-> b, platter |-> b]]
  BY DEF PowerLoss
<1>3. PICK lost \in SUBSET {d[n] : n \in Names} :
        disk' = [i \in Inodes |->
                   LET b == IF i \in lost THEN disk[i].platter ELSE disk[i].cache
                   IN [cache |-> b, platter |-> b]]
  BY <1>2
<1>4. \A i \in Inodes : /\ disk'[i].cache \in Contents /\ disk'[i].platter = disk'[i].cache
                        /\ disk'[i] \in [cache : Contents, platter : Contents]
                        /\ disk[i].platter = disk[i].cache => disk'[i].cache = disk[i].cache
  BY <1>1, <1>3 DEF TypeOK
<1>5. /\ Naming' /\ Now' = d /\ States' = {d}
      /\ journal' \in Seq(Directories) /\ journal' # <<>>
  BY <1>1, <1>2, NamingCollapsed
<1>6. /\ UNCHANGED <<plan, item, sent, skipped, blamed, published, may, faults>>
      /\ residue' = TRUE /\ crashes' = crashes + 1
      /\ \A p \in Procs : /\ pc'[p] = (IF Live(p) THEN "dead" ELSE pc[p])
                          /\ ino'[p] = NoInode /\ ~(Opened(p))'
  BY <1>1 DEF PowerLoss, Live, Opened, TypeOK
<1>7. TypeOK'
  <2>1. disk' \in [Inodes -> [cache : Contents, platter : Contents]]
    BY <1>3, <1>4
  <2> QED
    BY <1>1, <1>5, <1>6, <2>1 DEF PowerLoss, TypeOK
<1>8. Owned'
  BY <1>6 DEF Owned
<1>9. Settled'
  <2> SUFFICES ASSUME NEW t \in Targets, Guarded(t)
               PROVE  /\ t \in Existing => d[t] # NoInode
                      /\ d[t] # NoInode => /\ IsWhole(disk'[d[t]].cache)
                                           /\ disk'[d[t]].platter = disk'[d[t]].cache
                      /\ Shown(d, t)' \in may[t]
    BY <1>5, <1>6 DEF Settled, Guarded, IsWhole, Shown
  <2>1. /\ t \in Existing => d[t] # NoInode
        /\ d[t] # NoInode => /\ IsWhole(disk[d[t]].cache)
                             /\ disk[d[t]].platter = disk[d[t]].cache
        /\ Shown(d, t) \in may[t]
    BY <1>1 DEF Settled
  <2>2. d[t] # NoInode => d[t] \in Inodes
    BY <1>1, Directory, NamesApart
  <2>3. d[t] # NoInode => disk'[d[t]].cache = disk[d[t]].cache
                          /\ disk'[d[t]].platter = disk'[d[t]].cache
    BY <1>4, <2>1, <2>2
  <2>4. Shown(d, t)' = Shown(d, t)
    BY <2>3 DEF Shown
  <2> QED
    BY <2>1, <2>3, <2>4 DEF IsWhole
<1>10. ASSUME NEW p \in Procs PROVE Each(p)'
  <2>1. Placed(p)'
    BY <1>1, <1>6 DEF Each, Placed, Live
  <2>2. Told(p)'
    BY <1>1, <1>6 DEF Each, Told, Stale, Live
  <2> QED
    BY <1>6, <2>1, <2>2 DEF Each, Filled, Kept, Tidy
<1> QED
  BY <1>5, <1>7, <1>8, <1>9, <1>10 DEF IInv

\* What Open does, whichever file it opens.
LEMMA OpenStep ==
  ASSUME IInv, NEW p \in Procs, pc[p] = "next", item[p] <= Len(plan[p].items),
         NEW i \in Inodes,
         ino' = [ino EXCEPT ![p] = i],
         pc' = [pc EXCEPT ![p] = IF plan[p].atomic THEN "created" ELSE "open"],
         sent' = [sent EXCEPT ![p] = 0],
         UNCHANGED <<plan, item, skipped, blamed, published, may, faults, crashes, residue>>,
         disk' \in [Inodes -> [cache : Contents, platter : Contents]],
         \A j \in Inodes : j # i => disk'[j] = disk[j],
         disk'[i].cache = Bytes(Writing(p), 0),
         Naming', journal' \in Seq(Directories), journal' # <<>>,
         \A n \in Names : Now'[n] = IF n = Created(p) THEN i ELSE Now[n],
         States' = States \/ States' = States \cup {Now'},
         \A d \in States : \A t \in Targets : d[t] = i => t = Created(p),
         \A n \in Temps : Now[n] = i => n = Created(p),
         \A q \in Procs : ino[q] = i =>
           ~plan[p].atomic /\ ~plan[q].atomic /\ Now[Created(p)] = i
  PROVE  IInv'
<1>1. TypeOK /\ Owned /\ Settled /\ \A q \in Procs : Each(q)
  BY DEF IInv
<1>2. /\ Created(p) \in Names /\ i # NoInode
      /\ plan[p].atomic => \E b \in Targets \cup {Out} : Created(p) = <<p, b>>
      /\ plan[p].atomic => Created(p) \in Temps
      /\ ~plan[p].atomic => Created(p) = Target(p) /\ Target(p) \in Targets
  BY <1>1, CreatedTyped, PlanTyped, NamesApart
<1>3. /\ ino'[p] = i /\ sent'[p] = 0 /\ (Opened(p))' /\ ~Opened(p)
      /\ pc'[p] = (IF plan[p].atomic THEN "created" ELSE "open")
      /\ \A q \in Procs \ {p} : ino'[q] = ino[q] /\ sent'[q] = sent[q] /\ pc'[q] = pc[q]
  BY <1>1 DEF TypeOK, Opened
<1>4. \A q \in Procs : /\ Created(q)' = Created(q) /\ Writing(q)' = Writing(q)
                       /\ q # p /\ (Opened(q))' => Opened(q)
  BY <1>3 DEF Created, Target, Writing, Opened
<1>5. TypeOK'
  <2>1. 0 \in 0..Chunks
    BY BoundsTyped
  <2> QED
    BY <1>1, <2>1 DEF TypeOK
<1>6. \A d \in States' : \A t \in Targets : d[t] = i => t = Created(p)
  <2>1. \A t \in Targets : Now'[t] = i => t = Created(p)
    BY <1>1, Directory, NamesApart
  <2> QED
    BY <2>1
<1>7. \A n \in Temps : Now'[n] = i => n = Created(p)
  BY NamesApart
<1>8. \A q \in Procs : q # p /\ Opened(q) =>
        /\ ino[q] # NoInode /\ ino[q] \in Inodes
        /\ ino[q] = i => ~plan[q].atomic
  BY <1>1 DEF Each, Placed, TypeOK
<1>9. Aside(p)
  <2>1. ASSUME NEW q \in Procs \ {p}, NEW b \in Targets \cup {Out}
        PROVE  Now'[<<q, b>>] = Now[<<q, b>>]
    <3>1. <<q, b>> \in Names /\ <<q, b>> \notin Targets
      BY NamesApart
    <3>2. <<q, b>> # Created(p)
      <4>1. CASE plan[p].atomic
        <5>1. PICK c \in Targets \cup {Out} : Created(p) = <<p, c>>
          BY <1>2, <4>1
        <5> QED
          BY <5>1
      <4>2. CASE ~plan[p].atomic
        BY <1>2, <3>1, <4>2
      <4> QED
        BY <4>1, <4>2
    <3> QED
      BY <3>1, <3>2
  <2>2. \A q \in Procs \ {p} : Opened(q) /\ plan[q].atomic => disk'[ino[q]] = disk[ino[q]]
    BY <1>8
  <2> QED
    BY <1>3, <2>1, <2>2 DEF Aside
<1>10. Owned'
  <2> SUFFICES ASSUME NEW q \in Procs, Opened(q)'
               PROVE  /\ \A d \in States' : \A t \in Targets : d[t] = ino'[q] => t = Created(q)
                      /\ \A n \in Temps : Now'[n] = ino'[q] => n = Created(q)
                      /\ plan[q].atomic => \A r \in Procs : ino'[r] = ino'[q] => r = q
    BY <1>4 DEF Owned
  <2>1. CASE q = p
    <3>1. plan[q].atomic => \A r \in Procs : ino'[r] = ino'[q] => r = q
      BY <1>3, <2>1
    <3> QED
      BY <1>3, <1>6, <1>7, <2>1, <3>1
  <2>2. CASE q # p
    <3>1. Opened(q) /\ ino'[q] = ino[q] /\ ino[q] # NoInode
      BY <1>3, <1>4, <1>8, <2>2
    <3>2. /\ \A d \in States : \A t \in Targets : d[t] = ino[q] => t = Created(q)
          /\ \A n \in Temps : Now[n] = ino[q] => n = Created(q)
          /\ plan[q].atomic => \A r \in Procs : ino[r] = ino[q] => r = q
      BY <1>1, <3>1 DEF Owned
    <3>3. CASE ino[q] # i
      <4>1. \A n \in Names : Now'[n] = ino[q] => Now[n] = ino[q]
        BY <3>3
      <4>2. \A t \in Targets : Now'[t] = ino[q] => t = Created(q)
        BY <1>1, <3>2, <4>1, Directory, NamesApart
      <4>3. \A d \in States' : \A t \in Targets : d[t] = ino[q] => t = Created(q)
        BY <3>2, <4>2
      <4>4. \A n \in Temps : Now'[n] = ino[q] => n = Created(q)
        BY <3>2, <4>1, NamesApart
      <4>5. plan[q].atomic => \A r \in Procs : ino'[r] = ino[q] => r = q
        BY <1>3, <3>2, <3>3
      <4> QED
        BY <3>1, <4>3, <4>4, <4>5
    <3>4. CASE ino[q] = i
      \* Two direct writers of one destination.
      <4>1. ~plan[p].atomic /\ ~plan[q].atomic /\ Now[Created(p)] = i
        BY <3>4
      <4>2. Created(p) = Created(q)
        BY <1>1, <1>2, <3>2, <3>4, <4>1, Directory
      <4> QED
        BY <1>6, <1>7, <3>1, <3>4, <4>1, <4>2
    <3> QED
      BY <3>3, <3>4
  <2> QED
    BY <2>1, <2>2
<1>11. Settled'
  <2>1. \A t \in Targets : Guarded(t) => t # Created(p)
    <3>1. item[p] \in 1..Len(plan[p].items)
      BY <1>1, PlanTyped DEF TypeOK
    <3>2. ~plan[p].atomic => ~Guarded(Created(p))
      BY <1>2, <3>1 DEF Guarded, Target
    <3>3. plan[p].atomic => Created(p) \notin Targets
      BY <1>2, NamesApart
    <3> QED
      BY <1>1, <3>2, <3>3, PlanTyped
  <2>2. \A d \in States' : \E e \in States : \A t \in Targets : Guarded(t) => d[t] = e[t]
    <3>1. Now \in States
      BY <1>1, Directory
    <3>2. \A t \in Targets : Guarded(t) => Now'[t] = Now[t]
      BY <2>1, NamesApart
    <3> QED
      BY <3>1, <3>2
  <2>3. \A d \in States : \A t \in Targets :
          Guarded(t) /\ d[t] # NoInode => disk'[d[t]] = disk[d[t]]
    <3>1. \A d \in States : \A t \in Targets : d[t] # NoInode => d[t] \in Inodes
      BY <1>1, Directory, NamesApart
    <3> QED
      BY <2>1, <3>1
  <2> QED
    BY <2>2, <2>3, SettledStays
<1>12. Placed(p)' /\ Kept(p)'
  BY <1>1, <1>2, <1>3, <1>4 DEF Each, Placed, Kept
<1>13. Filled(p)'
  BY <1>3, <1>4 DEF Filled, Bytes
<1>14. Tidy(p)'
  <2>1. SUFFICES ASSUME ~residue, NEW b \in Targets \cup {Out}, Now'[<<p, b>>] # NoInode
                 PROVE  plan[p].atomic /\ <<p, b>> = Created(p)
    BY <1>3, <1>4 DEF Tidy
  <2>2. <<p, b>> \in Names /\ <<p, b>> \notin Targets
    BY NamesApart
  <2>3. CASE <<p, b>> = Created(p)
    BY <1>1, <1>2, <2>2, <2>3, PlanTyped
  <2>4. CASE <<p, b>> # Created(p)
    BY <1>1, <2>1, <2>2, <2>4 DEF Each, Tidy
  <2> QED
    BY <2>3, <2>4
<1>15. Told(p)'
  BY <1>1, <1>3 DEF Each, Told
<1> QED
  BY <1>5, <1>9, <1>10, <1>11, <1>12, <1>13, <1>14, <1>15, Assembled DEF Each

\* Open, with a new inode or with the one the name has.
LEMMA OpenKeeps ==
  ASSUME IInv, NEW p \in Procs, Open(p)
  PROVE  IInv'
<1>1. TypeOK /\ Naming /\ Owned /\ \A q \in Procs : Placed(q)
  BY DEF IInv, Each
<1>2. /\ pc[p] = "next" /\ item[p] <= Len(plan[p].items)
      /\ pc' = [pc EXCEPT ![p] = IF plan[p].atomic THEN "created" ELSE "open"]
      /\ sent' = [sent EXCEPT ![p] = 0]
      /\ UNCHANGED <<plan, item, skipped, blamed, published, may, faults, crashes, residue>>
  BY DEF Open
<1>3. /\ Created(p) \in Names
      /\ plan[p].atomic => \E b \in Targets \cup {Out} : Created(p) = <<p, b>>
      /\ plan[p].atomic => Created(p) \in Temps
      /\ ~plan[p].atomic => Created(p) = Target(p) /\ Target(p) \in Targets
  BY <1>1, <1>2, CreatedTyped, PlanTyped, NamesApart
<1>4. Now \in States /\ Now \in Directories
  BY <1>1, Directory
<1>5. Bytes(Writing(p), 0) \in Contents /\ Bytes(Mixed, 0) \in Contents
  <2>1. 0 \in 0..Chunks
    BY BoundsTyped
  <2>2. Writing(p) \in Procs \X Nat
    BY <1>1 DEF Writing, TypeOK
  <2> QED
    BY <2>1, <2>2 DEF Bytes, Contents
<1>6. ASSUME NEW i \in Unused, Now[Created(p)] = NoInode, Link(Created(p), i),
             disk' = [disk EXCEPT ![i] = [cache |-> Bytes(Writing(p), 0),
                                          platter |-> Bytes(Mixed, 0)]],
             ino' = [ino EXCEPT ![p] = i]
      PROVE  IInv'
  <2>1. /\ i \in Inodes
        /\ \A d \in States : \A n \in Names : d[n] # i
        /\ \A q \in Procs : ino[q] # i
    BY <1>6 DEF Unused
  <2>2. /\ disk' \in [Inodes -> [cache : Contents, platter : Contents]]
        /\ \A j \in Inodes : j # i => disk'[j] = disk[j]
        /\ disk'[i].cache = Bytes(Writing(p), 0)
    BY <1>1, <1>5, <1>6, <2>1 DEF TypeOK
  <2>3. /\ Naming' /\ Now' = [Now EXCEPT ![Created(p)] = i] /\ States' = States \cup {Now'}
        /\ journal' \in Seq(Directories) /\ journal' # <<>>
    BY <1>1, <1>3, <1>6, NamingLinked
  <2>4. \A n \in Names : Now'[n] = IF n = Created(p) THEN i ELSE Now[n]
    BY <1>4, <2>3 DEF Directories
  <2>5. /\ \A d \in States : \A t \in Targets : d[t] = i => t = Created(p)
        /\ \A n \in Temps : Now[n] = i => n = Created(p)
    BY <1>4, <2>1, NamesApart
  <2>6. \A q \in Procs : ino[q] = i =>
          ~plan[p].atomic /\ ~plan[q].atomic /\ Now[Created(p)] = i
    BY <2>1
  <2>7. States' = States \cup {Now'}
    BY <2>3
  <2> QED
    BY <1>2, <1>6, <2>1, <2>2, <2>3, <2>4, <2>5, <2>6, <2>7, OpenStep
<1>7. ASSUME Now[Created(p)] # NoInode,
             disk' = [disk EXCEPT ![Now[Created(p)]].cache = Bytes(Writing(p), 0)],
             ino' = [ino EXCEPT ![p] = Now[Created(p)]], UNCHANGED journal
      PROVE  IInv'
  <2> DEFINE i == Now[Created(p)]
  <2>1. i \in Inodes /\ i # NoInode
    BY <1>3, <1>4, <1>7, <1>1, Directory
  <2>2. /\ disk' \in [Inodes -> [cache : Contents, platter : Contents]]
        /\ \A j \in Inodes : j # i => disk'[j] = disk[j]
        /\ disk'[i].cache = Bytes(Writing(p), 0)
    <3>1. disk \in [Inodes -> [cache : Contents, platter : Contents]]
      BY <1>1 DEF TypeOK
    <3>2. disk' = [disk EXCEPT ![i] = [disk[i] EXCEPT !.cache = Bytes(Writing(p), 0)]]
      BY <1>7, <2>1, <3>1
    <3>3. [disk[i] EXCEPT !.cache = Bytes(Writing(p), 0)] \in [cache : Contents, platter : Contents]
      BY <1>5, <2>1, <3>1
    <3> HIDE DEF i
    <3> QED
      BY <2>1, <3>1, <3>2, <3>3
  <2>3. /\ Naming' /\ Now' = Now /\ States' = States
        /\ journal' \in Seq(Directories) /\ journal' # <<>>
    BY <1>1, <1>7 DEF Naming, Now, States, TypeOK
  <2>4. \A n \in Names : Now'[n] = IF n = Created(p) THEN i ELSE Now[n]
    BY <2>3
  <2>5. \A d \in States : \A t \in Targets : d[t] = i => t = Created(p)
    <3>1. CASE Created(p) \in Temps
      BY <1>1, <1>4, <2>1, <3>1, NamesApart DEF Naming
    <3>2. CASE Created(p) \in Targets
      BY <1>1, <1>4, <2>1, <3>2 DEF Naming
    <3> QED
      BY <1>3, <3>1, <3>2 DEF Names
  <2>6. \A n \in Temps : Now[n] = i => n = Created(p)
    BY <1>1, <1>3, <1>4, <2>1, NamesApart DEF Naming
  <2>7. ASSUME NEW q \in Procs, ino[q] = i
        PROVE  ~plan[p].atomic /\ ~plan[q].atomic /\ Now[Created(p)] = i
    <3>1. Opened(q) /\ q # p /\ item[q] <= Len(plan[q].items)
      BY <1>1, <1>2, <2>1, <2>7 DEF Placed, Opened
    <3>2. /\ \A t \in Targets : Now[t] = i => t = Created(q)
          /\ \A n \in Temps : Now[n] = i => n = Created(q)
      BY <1>1, <1>4, <2>7, <3>1 DEF Owned
    <3>3. Created(q) = Created(p)
      BY <1>3, <3>2 DEF Names
    <3>4. /\ plan[q].atomic => \E b \in Targets \cup {Out} : Created(q) = <<q, b>>
          /\ plan[q].atomic => Created(q) \in Temps
          /\ ~plan[q].atomic => Created(q) \in Targets
      BY <1>1, <3>1, CreatedTyped, PlanTyped
    <3>5. ~(plan[p].atomic /\ plan[q].atomic)
      <4> SUFFICES ASSUME plan[p].atomic, plan[q].atomic PROVE FALSE
        OBVIOUS
      <4>1. PICK b \in Targets \cup {Out} : Created(p) = <<p, b>>
        BY <1>3
      <4>2. PICK c \in Targets \cup {Out} : Created(q) = <<q, c>>
        BY <3>4
      <4> QED
        BY <3>1, <3>3, <4>1, <4>2
    <3>6. plan[p].atomic <=> plan[q].atomic
      BY <1>3, <3>3, <3>4, NamesApart
    <3> QED
      BY <3>5, <3>6
  <2> HIDE DEF i
  <2>8. ino' = [ino EXCEPT ![p] = i]
    BY <1>7 DEF i
  <2>9. \A q \in Procs : ino[q] = i =>
          ~plan[p].atomic /\ ~plan[q].atomic /\ Now[Created(p)] = i
    BY <2>7
  <2> QED
    BY <1>2, <2>1, <2>2, <2>3, <2>4, <2>5, <2>6, <2>8, <2>9, OpenStep
<1> QED
  BY <1>6, <1>7 DEF Open

-----------------------------------------------------------------------------
(* Every step.                                                             *)

\* A failed system call ends the run.
LEMMA FailsKeeps ==
  ASSUME IInv, NEW p \in Procs, Opened(p), Fails(p)
  PROVE  IInv'
<1>1. TypeOK /\ Placed(p)
  BY DEF IInv, Each
<1>2. /\ faults' \in Nat /\ blamed' \in [Procs -> BOOLEAN] /\ blamed'[p]
      /\ \A q \in Procs : q # p => blamed'[q] = blamed[q]
  BY <1>1 DEF Fails, Fault, TypeOK
<1>3. pc[p] \in {"next", "created", "open", "flushed", "synced"} /\ item[p] <= Len(plan[p].items)
  BY <1>1 DEF Opened, Placed
<1> QED
  BY <1>2, <1>3, AbandonStep DEF Fails

\* So does a failure of the drive.
LEMMA BlamedKeeps ==
  ASSUME IInv, NEW p \in Procs, Blamed(p), pc[p] = "next" \/ Opened(p),
         item[p] <= Len(plan[p].items) \/ plan[p].route = "split"
  PROVE  IInv'
<1>1. TypeOK /\ Tidy(p)
  BY DEF IInv, Each
<1>2. /\ faults' \in Nat /\ blamed' \in [Procs -> BOOLEAN] /\ blamed'[p]
      /\ \A q \in Procs : q # p => blamed'[q] = blamed[q]
  BY <1>1 DEF Blamed, TypeOK
<1>3. pc[p] \in {"next", "created", "open", "flushed", "synced"}
  BY DEF Opened
<1>4. pc[p] # "next" \/ Stale(p) \/ residue \/ \A b \in Targets \cup {Out} : Now[<<p, b>>] = NoInode
  BY <1>1 DEF Tidy, Opened
<1>5. (pc[p] # "next" \/ Stale(p)) \in BOOLEAN
  BY DEF Stale
<1> QED
  BY <1>2, <1>3, <1>4, <1>5, AbandonStep DEF Blamed

\* So does a failure of the open, a split name taken twice included.
LEMMA OpenFailsKeeps ==
  ASSUME IInv, NEW p \in Procs, OpenFails(p)
  PROVE  IInv'
<1>1. TypeOK /\ Tidy(p) /\ pc[p] = "next" /\ item[p] <= Len(plan[p].items)
  BY DEF IInv, Each, OpenFails
<1>2. CASE Fault(p) /\ Abandon(p, plan[p].route = "edit" \/ Stale(p))
  <2>1. /\ faults' \in Nat /\ blamed' \in [Procs -> BOOLEAN] /\ blamed'[p]
        /\ \A q \in Procs : q # p => blamed'[q] = blamed[q]
    BY <1>1, <1>2 DEF Fault, TypeOK
  <2>2. \/ plan[p].route = "edit" \/ Stale(p) \/ residue
        \/ \A b \in Targets \cup {Out} : Now[<<p, b>>] = NoInode
    BY <1>1 DEF Tidy, Opened
  <2>3. (plan[p].route = "edit" \/ Stale(p)) \in BOOLEAN
    BY DEF Stale
  <2> QED
    BY <1>1, <1>2, <2>1, <2>2, <2>3, AbandonStep
<1>3. CASE Blamed(p)
  BY <1>1, <1>3, BlamedKeeps
<1> QED
  BY <1>2, <1>3 DEF OpenFails

\* The rename, whether it succeeds, finds no temporary file or fails.
LEMMA RenameKeeps ==
  ASSUME IInv, NEW p \in Procs, Rename(p)
  PROVE  IInv'
<1>1. pc[p] = "synced" /\ Opened(p) /\ TypeOK /\ Each(p)
  BY DEF Rename, Opened, IInv
<1>2. CASE Moved(p) /\ UNCHANGED <<blamed, faults>>
  BY <1>1, <1>2, MovedStep
<1>3. CASE Now[Created(p)] = NoInode /\ Abandon(p, TRUE) /\ UNCHANGED <<blamed, faults>>
  <2>1. item[p] <= Len(plan[p].items) /\ Stale(p)
    BY <1>1, <1>3 DEF Each, Placed, Kept
  <2>2. faults' \in Nat /\ blamed' \in [Procs -> BOOLEAN] /\ blamed' = blamed
    BY <1>1, <1>3 DEF TypeOK
  <2> QED
    BY <1>1, <1>3, <2>1, <2>2, AbandonStep
<1>4. CASE Fails(p)
  BY <1>1, <1>4, FailsKeeps
<1> QED
  BY <1>2, <1>3, <1>4 DEF Rename

\* The invariant holds before the first process opens a file.
LEMMA InitHolds == Init => IInv
<1> SUFFICES ASSUME Init PROVE IInv
  OBVIOUS
<1> DEFINE first == [n \in Names |-> IF n \in Existing THEN n ELSE NoInode]
<1>1. journal = <<first>> /\ first \in Directories
  BY PublicationAssumption, NamesApart DEF Init, Directories, Inodes
<1>2. Now = first /\ States = {first} /\ journal \in Seq(Directories) /\ journal # <<>>
  BY <1>1 DEF Now, States
<1>3. \A n \in Names : first[n] # NoInode => first[n] = n /\ n \in Targets
  BY PublicationAssumption
<1>4. \A t \in Targets : first[t] = IF t \in Existing THEN t ELSE NoInode
  BY NamesApart
<1> HIDE DEF first
<1>5. Bytes(Original, Chunks) \in Contents /\ Original # Mixed /\ Chunks \in 0..Chunks
      /\ 0 \in 0..Chunks
  BY BoundsTyped DEF Bytes, Contents, Original, Mixed
<1>6. TypeOK
  <2>1. may \in [Targets -> SUBSET ((Procs \X Nat) \cup {Original, Absent, Mixed})]
    BY DEF Init
  <2>2. disk \in [Inodes -> [cache : Contents, platter : Contents]]
    BY <1>5 DEF Init
  <2>3. /\ pc \in [Procs -> {"next", "created", "open", "flushed", "synced", "renamed",
                             "ok", "failed", "dead"}]
        /\ item \in [Procs -> Nat \ {0}] /\ ino \in [Procs -> Inodes \cup {NoInode}]
        /\ sent \in [Procs -> 0..Chunks] /\ skipped \in [Procs -> SUBSET Nat]
        /\ blamed \in [Procs -> BOOLEAN] /\ published \subseteq Procs \X Nat
    BY <1>5 DEF Init
  <2>4. plan \in Plans /\ faults \in Nat /\ crashes \in Nat /\ residue \in BOOLEAN
    BY DEF Init
  <2> QED
    BY <1>2, <2>1, <2>2, <2>3, <2>4 DEF TypeOK
<1>7. Naming
  BY <1>2, <1>3, NamesApart DEF Naming
<1>8. \A p \in Procs : ~Opened(p) /\ pc[p] = "next" /\ ino[p] = NoInode /\ item[p] = 1
                       /\ skipped[p] = {}
  BY DEF Init, Opened
<1>9. Owned
  BY <1>8 DEF Owned
<1>10. Settled
  <2> SUFFICES ASSUME NEW t \in Targets
               PROVE  /\ t \in Existing => first[t] # NoInode
                      /\ first[t] # NoInode => /\ IsWhole(disk[first[t]].cache)
                                               /\ disk[first[t]].platter = disk[first[t]].cache
                      /\ Shown(first, t) \in may[t]
    BY <1>2 DEF Settled
  <2>1. \A i \in Inodes : /\ disk[i].cache = Bytes(Original, Chunks)
                          /\ disk[i].platter = Bytes(Original, Chunks)
    BY DEF Init
  <2>2. t \in Inodes /\ t # NoInode
    BY NamesApart
  <2>3. may[t] = {IF t \in Existing THEN Original ELSE Absent}
    BY DEF Init
  <2> QED
    BY <1>4, <1>5, <2>1, <2>2, <2>3 DEF Shown, IsWhole, Bytes
<1>11. ASSUME NEW p \in Procs PROVE Each(p)
  <2>1. \A b \in Targets \cup {Out} : Now[<<p, b>>] = NoInode
    BY <1>2, <1>3, NamesApart
  <2> QED
    BY <1>8, <2>1 DEF Each, Placed, Filled, Kept, Tidy, Told
<1> QED
  BY <1>6, <1>7, <1>9, <1>10, <1>11 DEF IInv

\* Every step preserves it.
LEMMA StepKeeps == IInv /\ [Next]_vars => IInv'
<1> SUFFICES ASSUME IInv, [Next]_vars PROVE IInv'
  OBVIOUS
<1>1. CASE UNCHANGED vars
  <2>1. UNCHANGED <<disk, journal, plan, pc, item, ino, sent, skipped, blamed,
                    published, may, faults, crashes, residue>>
    BY <1>1 DEF vars, run
  <2>2. TypeOK'
    BY <2>1 DEF IInv, TypeOK
  <2>3. Naming' /\ Owned' /\ Settled'
    BY <2>1 DEF IInv, Naming, Owned, Settled, States, Now, Opened, Created, Target, Guarded,
                IsWhole, Shown
  <2>4. ASSUME NEW p \in Procs PROVE Each(p)'
    <3>1. /\ Now' = Now /\ Created(p)' = Created(p) /\ Writing(p)' = Writing(p)
          /\ (Stale(p))' <=> Stale(p)
          /\ (Opened(p))' <=> Opened(p)
      BY <2>1 DEF Now, Opened, Created, Target, Writing, Stale
    <3>2. Each(p)
      BY DEF IInv
    <3>3. Placed(p)' /\ Filled(p)'
      BY <2>1, <3>1, <3>2 DEF Each, Placed, Filled
    <3>4. Kept(p)'
      BY <2>1, <3>1, <3>2 DEF Each, Kept
    <3>5. Tidy(p)'
      BY <2>1, <3>1, <3>2 DEF Each, Tidy
    <3>6. Told(p)'
      BY <2>1, <3>1, <3>2 DEF Each, Told
    <3> QED
      BY <3>3, <3>4, <3>5, <3>6 DEF Each
  <2> QED
    BY <2>2, <2>3, <2>4 DEF IInv
<1>2. ASSUME NEW p \in Procs, DriveFails(p) PROVE IInv'
  <2>1. \/ pc[p] = "next" /\ (item[p] <= Len(plan[p].items) \/ plan[p].route = "split")
        \/ Opened(p) /\ item[p] <= Len(plan[p].items)
    BY <1>2 DEF DriveFails, Opened, IInv, Each, Placed
  <2> QED
    BY <1>2, <2>1, BlamedKeeps DEF DriveFails
<1>3. ASSUME NEW p \in Procs, Prepare(p) PROVE IInv'
  BY <1>3, PrepareStep, FailsKeeps DEF Prepare, Opened
<1>4. ASSUME NEW p \in Procs, Write(p) PROVE IInv'
  BY <1>4, WriteStep, FailsKeeps DEF Write, Opened
<1>5. ASSUME NEW p \in Procs, Flush(p) PROVE IInv'
  BY <1>5, FlushStep, FailsKeeps DEF Flush, Opened
<1>6. ASSUME NEW p \in Procs, Sync(p) PROVE IInv'
  BY <1>6, SyncStep, FailsKeeps DEF Sync, Opened
<1>7. CASE \E p \in Procs : Open(p) \/ OpenFails(p) \/ Skip(p) \/ Rename(p)
  BY <1>7, OpenKeeps, OpenFailsKeeps, SkipStep, RenameKeeps
<1>8. CASE \E p \in Procs : SyncParent(p) \/ Finish(p) \/ Kill(p) \/ Restart(p)
  BY <1>8, SyncParentStep, FinishStep, KillStep, RestartStep
<1>9. CASE PowerLoss
  BY <1>9, PowerLossStep
<1> QED
  BY <1>1, <1>2, <1>3, <1>4, <1>5, <1>6, <1>7, <1>8, <1>9 DEF Next

\* The inductive invariant.
LEMMA InvariantHolds == Spec => []IInv
BY InitHolds, StepKeeps, PTL DEF Spec

-----------------------------------------------------------------------------
(* What the invariant says of the files a run leaves.                      *)

\* Types: every directory maps names to inodes, every file holds a
\* writing's bytes or a mixture (output.rs, CliWriter and write_atomic).
THEOREM TypesHold == Spec => []TypeOK
<1>1. IInv => TypeOK
  BY DEF IInv
<1> QED
  BY <1>1, InvariantHolds, PTL

\* The atomicity law of output.rs: a destination that only atomic plans
\* write is at every moment, whatever fails or crashes, a whole file.
THEOREM TargetsStayWhole == Spec => []TargetsWhole
<1>1. IInv => TargetsWhole
  <2>1. TypeOK => Now \in States
    BY Directory
  <2> QED
    BY <2>1 DEF IInv, Settled, TargetsWhole
<1> QED
  BY <1>1, InvariantHolds, PTL

\* After a loss of power a destination shows what its last synced directory
\* named, or a writing renamed over it since (commit's sync_parent).
THEOREM SyncedStays == Spec => []SyncedSurvives
<1>1. IInv => SyncedSurvives
  <2>1. TypeOK => Now \in States
    BY Directory
  <2> QED
    BY <2>1 DEF IInv, Settled, SyncedSurvives
<1> QED
  BY <1>1, InvariantHolds, PTL

\* Without a kill and with removals that work, no temporary file outlives
\* its run (CliWriter's Drop, write_atomic's cleanup).
THEOREM NothingStaysBehind == Spec => []NothingLeftBehind
<1>1. IInv => NothingLeftBehind
  BY DEF IInv, Each, Tidy, NothingLeftBehind, Live, Opened
<1> QED
  BY <1>1, InvariantHolds, PTL

\* A run that ends well has published every file it did not skip.
THEOREM SuccessPublishes == Spec => []SuccessIsPublished
<1>1. IInv => SuccessIsPublished
  <2> SUFFICES ASSUME IInv, NEW p \in Procs, pc[p] = "ok", NEW k \in 1..Len(plan[p].items)
               PROVE  k \in skipped[p] \/ <<p, k>> \in published
    BY DEF SuccessIsPublished
  <2>1. TypeOK /\ Told(p)
    BY DEF IInv, Each
  <2>2. item[p] > Len(plan[p].items) /\ item[p] \in Nat /\ Len(plan[p].items) \in Nat
    BY <2>1, PlanTyped DEF Told, TypeOK
  <2>3. k \in 1..(item[p] - 1)
    BY <2>2
  <2> QED
    BY <2>1, <2>3 DEF Told
<1> QED
  BY <1>1, InvariantHolds, PTL

\* A run fails only over something that failed, or in the item right behind a
\* skipped one, whose own stale writer takes its temporary file: two processes
\* never take each other's.
THEOREM FailureIsCaused == Spec => []FailureHasCause
<1>1. IInv => FailureHasCause
  BY DEF IInv, Each, Told, FailureHasCause
<1> QED
  BY <1>1, InvariantHolds, PTL

=============================================================================
