-------------------------- MODULE TaskGrantsProofs --------------------------
(***************************************************************************)
(* Proofs about the ledgers and the envelopes, for every number of workers,*)
(* every envelope and every ceiling.                                       *)
(***************************************************************************)
EXTENDS TaskGrants, FoldLemmas

-----------------------------------------------------------------------------
(* One ledger.                                                             *)

LEMMA OpenedSound ==
  ASSUME NEW limits \in Limits, NEW bytes \in Nat,
         bytes <= limits.memory, bytes <= limits.retained
  PROVE  Opened(bytes) \in Ledger /\ Sound(Opened(bytes), limits)
BY DEF Limits, Opened, Ledger, Sound, Category, GroupBytes, GroupLimit

LEMMA ChargedSound ==
  ASSUME NEW limits \in Limits, NEW l \in Ledger, NEW c \in Category, NEW n \in Nat,
         Sound(l, limits), Admits(l, limits, c, n)
  PROVE  Charged(l, c, n) \in Ledger /\ Sound(Charged(l, c, n), limits)
BY DEF Limits, Charged, Ledger, Sound, Category, GroupBytes, GroupLimit, Admits

LEMMA ReleasedSound ==
  ASSUME NEW limits \in Limits, NEW l \in Ledger, NEW c \in Category, NEW n \in Nat,
         Sound(l, limits)
  PROVE  Released(l, c, n) \in Ledger /\ Sound(Released(l, c, n), limits)
BY DEF Limits, Released, Lower, Ledger, Sound, Category, GroupBytes, GroupLimit

-----------------------------------------------------------------------------
(* All of them.                                                            *)

LEMMA LimitsTyped == \A a \in Accounts : LimitsOf(a) \in Limits
BY GrantsAssumption DEF LimitsOf, Limits, RequestLimits, EnvelopeBytes

LEMMA NewLedger ==
  \A a \in Accounts : Opened(LedgerBytes) \in Ledger /\ Sound(Opened(LedgerBytes), LimitsOf(a))
<1> SUFFICES ASSUME NEW a \in Accounts
             PROVE  Opened(LedgerBytes) \in Ledger /\ Sound(Opened(LedgerBytes), LimitsOf(a))
  OBVIOUS
<1>1. LimitsOf(a) \in Limits
  BY LimitsTyped
<1>2. LedgerBytes <= LimitsOf(a).memory /\ LedgerBytes <= LimitsOf(a).retained
  BY GrantsAssumption DEF LimitsOf, RequestLimits, EnvelopeBytes
<1> QED
  BY <1>1, <1>2, OpenedSound, GrantsAssumption

\* What a book-keeping step may put in place of a ledger.
Books(f) == f \in [Accounts -> Ledger] /\ \A a \in Accounts : Sound(f[a], LimitsOf(a))

LEMMA BooksChanged ==
  ASSUME NEW f, Books(f), NEW a \in Accounts, NEW l \in Ledger, Sound(l, LimitsOf(a))
  PROVE  Books([f EXCEPT ![a] = l])
BY DEF Books

LEMMA BooksReleased ==
  ASSUME NEW f, Books(f), NEW a \in Accounts, NEW c \in Category, NEW n \in Nat
  PROVE  Books([f EXCEPT ![a] = Released(f[a], c, n)])
<1>1. f[a] \in Ledger /\ Sound(f[a], LimitsOf(a))
  BY DEF Books
<1>2. Released(f[a], c, n) \in Ledger /\ Sound(Released(f[a], c, n), LimitsOf(a))
  BY <1>1, LimitsTyped, ReleasedSound
<1> QED
  BY <1>2, BooksChanged

LEMMA BooksCharged ==
  ASSUME NEW f, Books(f), NEW a \in Accounts, NEW c \in Category, NEW n \in Nat,
         Admits(f[a], LimitsOf(a), c, n)
  PROVE  Books([f EXCEPT ![a] = Charged(f[a], c, n)])
<1>1. f[a] \in Ledger /\ Sound(f[a], LimitsOf(a))
  BY DEF Books
<1>2. Charged(f[a], c, n) \in Ledger /\ Sound(Charged(f[a], c, n), LimitsOf(a))
  BY <1>1, LimitsTyped, ChargedSound
<1> QED
  BY <1>2, BooksChanged

-----------------------------------------------------------------------------
(* The inductive invariant.                                                *)

\* A worker that has not opened its ledger, or has closed it, has nothing on it.
Shut(g) ==
  worker[g] # "open" =>
    /\ ledger[g] = Opened(LedgerBytes) /\ live[g] = Nothing
    /\ ~foreign[g] /\ output[g] = NONE

OnChild(g) == IF slot[g] = g THEN Bytes(output[g]) ELSE 0

\* An open ledger is what its thread holds and its result's storage.
ChildExact(g) ==
  ~foreign[g] =>
    /\ ledger[g].cur["Retained"] = live[g]["Retained"] + LedgerBytes
    /\ ledger[g].cur["Working"] = live[g]["Working"]
    /\ ledger[g].cur["Diagnostic"] = live[g]["Diagnostic"]
    /\ ledger[g].cur["PendingIo"] = live[g]["PendingIo"] + OnChild(g)

\* Where the envelope is: with a worker, behind a detached result, or shrunk to
\* an adopted one.
EnvelopeHeld(g) ==
  /\ hold[g] # NONE => hold[g] = EnvelopeBytes
  /\ worker[g] # "none" => hold[g] = EnvelopeBytes /\ result[g] = NONE
  /\ output[g] # NONE => output[g] <= Envelope.output
  /\ result[g] # NONE =>
       IF result[g].kept = NONE
       THEN hold[g] = EnvelopeBytes /\ result[g].bytes <= Envelope.output
       ELSE result[g].bytes <= result[g].kept

IInv ==
  /\ TypeOK
  /\ Books(ledger)
  /\ \A g \in Grants : Shut(g) /\ ChildExact(g) /\ EnvelopeHeld(g)

LEMMA InitHolds == Init => IInv
<1> SUFFICES ASSUME Init PROVE IInv
  OBVIOUS
<1>1. Opened(LedgerBytes) \in Ledger
  BY NewLedger DEF Accounts
<1>2. Books(ledger)
  BY NewLedger DEF Init, Books
<1>3. TypeOK
  BY <1>1 DEF Init, TypeOK, Nothing, Accounts
<1>4. ASSUME NEW g \in Grants PROVE Shut(g) /\ ChildExact(g) /\ EnvelopeHeld(g)
  <2>1. ledger[g] = Opened(LedgerBytes) /\ live[g] = Nothing /\ ~foreign[g]
        /\ output[g] = NONE /\ worker[g] = "none" /\ hold[g] = NONE /\ result[g] = NONE
    BY DEF Init, Accounts
  <2>2. ChildExact(g)
    BY <2>1, GrantsAssumption DEF ChildExact, OnChild, Bytes, Nothing, Opened, Category
  <2> QED
    BY <2>1, <2>2, GrantsAssumption DEF Shut, EnvelopeHeld
<1> QED
  BY <1>2, <1>3, <1>4 DEF IInv

-----------------------------------------------------------------------------
(* The allocator's steps.                                                  *)

LEMMA CurrentAccount ==
  ASSUME TypeOK, NEW a \in Current
  PROVE  a \in Accounts /\ \A g \in Grants : a = g => worker[g] = "open"
BY GrantsAssumption DEF Current, Accounts

LEMMA AllocateStep ==
  ASSUME IInv, NEW a \in Current, NEW c \in Category, NEW n \in Sizes, Allocate(a, c, n)
  PROVE  IInv'
<1>1. TypeOK /\ Books(ledger) /\ a \in Accounts /\ n \in Nat
  BY CurrentAccount, GrantsAssumption DEF IInv
<1>2. CASE Admits(ledger[a], LimitsOf(a), c, n)
  <2>1. ledger' = [ledger EXCEPT ![a] = Charged(ledger[a], c, n)]
        /\ live' = [live EXCEPT ![a] = [live[a] EXCEPT ![c] = @ + n]]
        /\ UNCHANGED <<tripped, worker, slot, output, hold, result, foreign>>
    BY <1>2 DEF Allocate
  <2>2. Books(ledger')
    BY <1>1, <1>2, <2>1, BooksCharged
  <2>3. live' \in [Accounts -> [Category -> Nat]]
    BY <1>1, <2>1 DEF TypeOK
  <2>4. TypeOK'
    BY <1>1, <2>1, <2>2, <2>3 DEF TypeOK, Books
  <2>5. ASSUME NEW g \in Grants PROVE Shut(g)' /\ ChildExact(g)' /\ EnvelopeHeld(g)'
    <3>1. Shut(g) /\ ChildExact(g) /\ EnvelopeHeld(g) /\ g \in Accounts
      BY DEF IInv, Accounts
    <3>2. EnvelopeHeld(g)'
      BY <2>1, <3>1 DEF EnvelopeHeld
    <3>3. CASE a = g
      <4>1. worker[g] = "open"
        BY <3>3, <1>1, CurrentAccount
      <4>2. \A d \in Category : ledger'[g].cur[d] = IF d = c THEN ledger[g].cur[c] + n ELSE ledger[g].cur[d]
        BY <1>1, <2>1, <3>1, <3>3 DEF TypeOK, Charged, Ledger
      <4>3. \A d \in Category : live'[g][d] = IF d = c THEN live[g][c] + n ELSE live[g][d]
        BY <1>1, <2>1, <3>1, <3>3 DEF TypeOK
      <4>4. ledger[g].cur \in [Category -> Nat] /\ live[g] \in [Category -> Nat]
            /\ OnChild(g) \in Nat /\ LedgerBytes \in Nat
        BY <1>1, <3>1, GrantsAssumption DEF TypeOK, Ledger, OnChild, Bytes
      <4>5. OnChild(g)' = OnChild(g)
        BY <2>1 DEF OnChild
      <4>6. ChildExact(g)'
        BY <1>1, <2>1, <3>1, <4>2, <4>3, <4>4, <4>5 DEF ChildExact, Category
      <4> QED
        BY <2>1, <3>2, <4>1, <4>6 DEF Shut
    <3>4. CASE a # g
      <4>1. ledger'[g] = ledger[g] /\ live'[g] = live[g]
        BY <1>1, <2>1, <3>1, <3>4 DEF TypeOK
      <4> QED
        BY <2>1, <3>1, <3>2, <4>1 DEF Shut, ChildExact, OnChild
    <3> QED
      BY <3>3, <3>4
  <2> QED
    BY <2>2, <2>4, <2>5 DEF IInv
<1>3. CASE ~Admits(ledger[a], LimitsOf(a), c, n)
  <2>1. tripped' = [tripped EXCEPT ![a] = TRUE]
        /\ UNCHANGED <<ledger, live, worker, slot, output, hold, result, foreign>>
    BY <1>3 DEF Allocate
  <2>2. TypeOK'
    BY <1>1, <2>1 DEF TypeOK
  <2> QED
    BY <2>1, <2>2 DEF IInv, Shut, ChildExact, OnChild, EnvelopeHeld
<1> QED
  BY <1>2, <1>3

LEMMA DeallocateStep ==
  ASSUME IInv, NEW a \in Current, NEW c \in Category, NEW n \in Sizes, Deallocate(a, c, n)
  PROVE  IInv'
<1>1. TypeOK /\ Books(ledger) /\ a \in Accounts /\ n \in Nat
  BY CurrentAccount, GrantsAssumption DEF IInv
<1>2. ledger' = [ledger EXCEPT ![a] = Released(ledger[a], c, n)]
      /\ live' = [live EXCEPT ![a] = [live[a] EXCEPT ![c] = @ - n]]
      /\ UNCHANGED <<tripped, worker, slot, output, hold, result, foreign>>
      /\ n <= live[a][c]
  BY DEF Deallocate
<1>3. Books(ledger')
  BY <1>1, <1>2, BooksReleased
<1>4. live' \in [Accounts -> [Category -> Nat]]
  BY <1>1, <1>2 DEF TypeOK
<1>5. TypeOK'
  BY <1>1, <1>2, <1>3, <1>4 DEF TypeOK, Books
<1>6. ASSUME NEW g \in Grants PROVE Shut(g)' /\ ChildExact(g)' /\ EnvelopeHeld(g)'
  <2>1. Shut(g) /\ ChildExact(g) /\ EnvelopeHeld(g) /\ g \in Accounts
    BY DEF IInv, Accounts
  <2>2. EnvelopeHeld(g)'
    BY <1>2, <2>1 DEF EnvelopeHeld
  <2>3. CASE a = g
    <3>1. worker[g] = "open"
      BY <2>3, <1>1, CurrentAccount
    <3>2. ledger[g].cur \in [Category -> Nat] /\ live[g] \in [Category -> Nat]
          /\ OnChild(g) \in Nat /\ LedgerBytes \in Nat
      BY <1>1, <2>1, GrantsAssumption DEF TypeOK, Ledger, OnChild, Bytes
    <3>3. ASSUME ~foreign[g] PROVE n <= ledger[g].cur[c]
      BY <1>1, <1>2, <2>1, <2>3, <3>2, <3>3 DEF ChildExact, Category
    <3>4. ASSUME ~foreign[g], NEW d \in Category
          PROVE  ledger'[g].cur[d] = IF d = c THEN ledger[g].cur[c] - n ELSE ledger[g].cur[d]
      BY <1>1, <1>2, <2>1, <2>3, <3>2, <3>3, <3>4 DEF TypeOK, Released, Lower, Ledger
    <3>5. \A d \in Category : live'[g][d] = IF d = c THEN live[g][c] - n ELSE live[g][d]
      BY <1>1, <1>2, <2>1, <2>3 DEF TypeOK
    <3>6. OnChild(g)' = OnChild(g)
      BY <1>2 DEF OnChild
    <3>7. ChildExact(g)'
      BY <1>1, <1>2, <2>1, <2>3, <3>2, <3>3, <3>4, <3>5, <3>6 DEF ChildExact, Category
    <3> QED
      BY <1>2, <2>2, <3>1, <3>7 DEF Shut
  <2>4. CASE a # g
    <3>1. ledger'[g] = ledger[g] /\ live'[g] = live[g]
      BY <1>1, <1>2, <2>1, <2>4 DEF TypeOK
    <3> QED
      BY <1>2, <2>1, <2>2, <3>1 DEF Shut, ChildExact, OnChild
  <2> QED
    BY <2>3, <2>4
<1> QED
  BY <1>3, <1>5, <1>6 DEF IInv

LEMMA DeallocateForeignStep ==
  ASSUME IInv, NEW a \in Current, NEW n \in ForeignSizes, DeallocateForeign(a, n)
  PROVE  IInv'
<1>1. TypeOK /\ Books(ledger) /\ a \in Accounts /\ n \in Nat
  BY CurrentAccount, GrantsAssumption DEF IInv
<1>2. ledger' = [ledger EXCEPT ![a] = Released(ledger[a], "Working", n)]
      /\ foreign' = [foreign EXCEPT ![a] = TRUE]
      /\ UNCHANGED <<tripped, live, worker, slot, output, hold, result>>
  BY DEF DeallocateForeign
<1>3. Books(ledger')
  BY <1>1, <1>2, BooksReleased DEF Category
<1>4. TypeOK'
  BY <1>1, <1>2, <1>3 DEF TypeOK, Books
<1>5. ASSUME NEW g \in Grants PROVE Shut(g)' /\ ChildExact(g)' /\ EnvelopeHeld(g)'
  <2>1. Shut(g) /\ ChildExact(g) /\ EnvelopeHeld(g) /\ g \in Accounts
    BY DEF IInv, Accounts
  <2>2. CASE a = g
    <3>1. worker[g] = "open" /\ foreign'[g]
      BY <1>1, <1>2, <2>1, <2>2, CurrentAccount DEF TypeOK
    <3> QED
      BY <1>2, <2>1, <3>1 DEF Shut, ChildExact, EnvelopeHeld
  <2>3. CASE a # g
    <3>1. ledger'[g] = ledger[g] /\ foreign'[g] = foreign[g]
      BY <1>1, <1>2, <2>1, <2>3 DEF TypeOK
    <3> QED
      BY <1>2, <2>1, <3>1 DEF Shut, ChildExact, OnChild, EnvelopeHeld
  <2> QED
    BY <2>2, <2>3
<1> QED
  BY <1>3, <1>4, <1>5 DEF IInv

-----------------------------------------------------------------------------
(* The worker's steps.                                                     *)

LEMMA BooksReopened ==
  ASSUME NEW f, Books(f), NEW g \in Grants
  PROVE  Books([f EXCEPT ![g] = Opened(LedgerBytes)])
BY NewLedger, BooksChanged DEF Accounts

LEMMA OpenChildStep ==
  ASSUME IInv, NEW g \in Grants, OpenChild(g)
  PROVE  IInv'
<1>1. TypeOK /\ Books(ledger) /\ g \in Accounts /\ g # Parent
  BY GrantsAssumption DEF IInv, Accounts
<1>2. PICK a \in {g, Parent} : slot' = [slot EXCEPT ![g] = a]
  BY DEF OpenChild
<1>3. /\ worker[g] = "budget" /\ worker' = [worker EXCEPT ![g] = "open"]
      /\ ledger' = [ledger EXCEPT ![g] = Opened(LedgerBytes)]
      /\ UNCHANGED <<tripped, live, output, hold, result, foreign>>
  BY DEF OpenChild
<1>4. Books(ledger')
  BY <1>1, <1>3, BooksReopened
<1>5. TypeOK'
  BY <1>1, <1>2, <1>3, <1>4 DEF TypeOK, Books, Accounts
<1>6. ASSUME NEW h \in Grants PROVE Shut(h)' /\ ChildExact(h)' /\ EnvelopeHeld(h)'
  <2>1. Shut(h) /\ ChildExact(h) /\ EnvelopeHeld(h) /\ h \in Accounts
    BY DEF IInv, Accounts
  <2>2. CASE h = g
    <3>1. ledger'[g] = Opened(LedgerBytes) /\ live'[g] = Nothing /\ output'[g] = NONE
          /\ worker'[g] = "open"
      BY <1>1, <1>3, <2>1, <2>2 DEF TypeOK, Shut
    <3>2. ChildExact(g)'
      BY <3>1, GrantsAssumption DEF ChildExact, OnChild, Bytes, Opened, Nothing, Category
    <3> QED
      BY <1>3, <2>1, <2>2, <3>1, <3>2 DEF Shut, EnvelopeHeld
  <2>3. CASE h # g
    <3>1. ledger'[h] = ledger[h] /\ worker'[h] = worker[h] /\ slot'[h] = slot[h]
      BY <1>1, <1>2, <1>3, <2>1, <2>3 DEF TypeOK
    <3> QED
      BY <1>3, <2>1, <3>1 DEF Shut, ChildExact, OnChild, EnvelopeHeld
  <2> QED
    BY <2>2, <2>3
<1> QED
  BY <1>4, <1>5, <1>6 DEF IInv

LEMMA MakeOutputStep ==
  ASSUME IInv, NEW g \in Grants, NEW n \in Nat, MakeOutput(g, n)
  PROVE  IInv'
<1> DEFINE a == slot[g]
<1>1. TypeOK /\ Books(ledger) /\ g \in Accounts /\ g # Parent /\ a \in Accounts /\ a \in {g, Parent}
  BY GrantsAssumption DEF IInv, Accounts, TypeOK
<1>2. worker[g] = "open" /\ output[g] = NONE /\ n <= Envelope.output
      /\ UNCHANGED <<live, worker, slot, hold, result, foreign>>
  BY DEF MakeOutput
<1>3. CASE Admits(ledger[a], LimitsOf(a), "PendingIo", n)
  <2>1. ledger' = [ledger EXCEPT ![a] = Charged(ledger[a], "PendingIo", n)]
        /\ output' = [output EXCEPT ![g] = n] /\ UNCHANGED tripped
    BY <1>3 DEF MakeOutput
  <2>2. Books(ledger')
    BY <1>1, <1>3, <2>1, BooksCharged DEF Category
  <2>3. TypeOK'
    BY <1>1, <1>2, <2>1, <2>2 DEF TypeOK, Books
  <2>4. ASSUME NEW h \in Grants PROVE Shut(h)' /\ ChildExact(h)' /\ EnvelopeHeld(h)'
    <3>1. Shut(h) /\ ChildExact(h) /\ EnvelopeHeld(h) /\ h \in Accounts
      BY DEF IInv, Accounts
    <3>2. CASE h = g
      <4>1. output'[g] = n /\ n # NONE
        BY <1>1, <2>1, GrantsAssumption DEF TypeOK
      <4>2. EnvelopeHeld(g)'
        BY <1>2, <3>1, <3>2, <4>1 DEF EnvelopeHeld
      <4>3. OnChild(g) = 0 /\ OnChild(g)' = IF a = g THEN n ELSE 0
        BY <1>2, <4>1 DEF OnChild, Bytes
      <4>4. ledger[g].cur \in [Category -> Nat] /\ live[g] \in [Category -> Nat]
        BY <1>1 DEF TypeOK, Ledger
      <4>5. \A d \in Category : ledger'[g].cur[d] =
              IF a = g /\ d = "PendingIo" THEN ledger[g].cur[d] + n ELSE ledger[g].cur[d]
        BY <1>1, <2>1, <4>4 DEF TypeOK, Charged
      <4>6. ChildExact(g)'
        BY <1>2, <3>1, <3>2, <4>3, <4>4, <4>5, GrantsAssumption DEF ChildExact, Category
      <4> QED
        BY <1>2, <3>2, <4>2, <4>6 DEF Shut
    <3>3. CASE h # g
      <4>1. ledger'[h] = ledger[h] /\ output'[h] = output[h]
        BY <1>1, <2>1, <3>1, <3>3, GrantsAssumption DEF TypeOK
      <4> QED
        BY <1>2, <3>1, <4>1 DEF Shut, ChildExact, OnChild, EnvelopeHeld
    <3> QED
      BY <3>2, <3>3
  <2> QED
    BY <2>2, <2>3, <2>4 DEF IInv
<1>4. CASE ~Admits(ledger[a], LimitsOf(a), "PendingIo", n)
  <2>1. tripped' = [tripped EXCEPT ![a] = TRUE] /\ UNCHANGED <<ledger, output>>
    BY <1>4 DEF MakeOutput
  <2>2. TypeOK'
    BY <1>1, <1>2, <2>1 DEF TypeOK
  <2> QED
    BY <1>2, <2>1, <2>2 DEF IInv, Shut, ChildExact, OnChild, EnvelopeHeld
<1> QED
  BY <1>3, <1>4

\* What closing a child leaves to be shown: the result, if there is one.
LEMMA CloseChildStep ==
  ASSUME IInv, NEW g \in Grants, NEW n \in Nat, CloseChild(g, n), UNCHANGED <<slot, hold>>,
         result' \in [Grants -> Buffer \cup {NONE}],
         EnvelopeHeld(g)',
         \A h \in Grants : h # g => result'[h] = result[h]
  PROVE  IInv'
<1> DEFINE given == [ledger EXCEPT ![slot[g]] = Released(ledger[slot[g]], "PendingIo", n)]
<1>1. TypeOK /\ Books(ledger) /\ g \in Accounts /\ g # Parent
      /\ slot[g] \in Accounts /\ slot[g] \in {g, Parent}
  BY GrantsAssumption DEF IInv, Accounts, TypeOK
<1>2. /\ ledger' = [given EXCEPT ![g] = Opened(LedgerBytes)]
      /\ tripped' = [tripped EXCEPT ![g] = FALSE]
      /\ live' = [live EXCEPT ![g] = Nothing]
      /\ foreign' = [foreign EXCEPT ![g] = FALSE]
      /\ worker' = [worker EXCEPT ![g] = "none"]
      /\ output' = [output EXCEPT ![g] = NONE]
  BY DEF CloseChild
<1>3. Books(given)
  BY <1>1, BooksReleased DEF Category
<1>4. Books(ledger')
  BY <1>2, <1>3, BooksReopened
<1>5. Nothing \in [Category -> Nat]
  BY DEF Nothing
<1>6. TypeOK'
  BY <1>1, <1>2, <1>4, <1>5 DEF TypeOK, Books
<1>7. ASSUME NEW h \in Grants PROVE Shut(h)' /\ ChildExact(h)' /\ EnvelopeHeld(h)'
  <2>1. Shut(h) /\ ChildExact(h) /\ EnvelopeHeld(h) /\ h \in Accounts
    BY DEF IInv, Accounts
  <2>2. CASE h = g
    <3>1. ledger'[g] = Opened(LedgerBytes) /\ live'[g] = Nothing /\ output'[g] = NONE
          /\ ~foreign'[g]
      BY <1>1, <1>2, <1>3 DEF TypeOK, Books
    <3>2. ChildExact(g)'
      BY <3>1, GrantsAssumption DEF ChildExact, OnChild, Bytes, Opened, Nothing, Category
    <3> QED
      BY <2>2, <3>1, <3>2 DEF Shut
  <2>3. CASE h # g
    <3>1. /\ ledger'[h] = ledger[h] /\ live'[h] = live[h] /\ foreign'[h] = foreign[h]
          /\ worker'[h] = worker[h] /\ output'[h] = output[h]
      BY <1>1, <1>2, <1>3, <2>1, <2>3, GrantsAssumption DEF TypeOK, Books
    <3> QED
      BY <2>1, <2>3, <3>1 DEF Shut, ChildExact, OnChild, EnvelopeHeld
  <2> QED
    BY <2>2, <2>3
<1> QED
  BY <1>4, <1>6, <1>7 DEF IInv

LEMMA DetachStep ==
  ASSUME IInv, NEW g \in Grants, Detach(g)
  PROVE  IInv'
<1>1. TypeOK /\ EnvelopeHeld(g) /\ worker[g] = "open" /\ output[g] # NONE
  BY DEF IInv, Detach
<1>2. output[g] \in Nat /\ output[g] <= Envelope.output /\ hold[g] = EnvelopeBytes
  BY <1>1 DEF TypeOK, EnvelopeHeld
<1>3. PICK written \in 0..output[g] :
        /\ CloseChild(g, output[g] - written)
        /\ result' = [result EXCEPT ![g] =
                        [bytes |-> written, died |-> output[g] > 0 /\ slot[g] = g, kept |-> NONE]]
        /\ UNCHANGED <<slot, hold>>
  BY DEF Detach
<1> DEFINE r == [bytes |-> written, died |-> output[g] > 0 /\ slot[g] = g, kept |-> NONE]
<1>4. r \in Buffer /\ output[g] - written \in Nat
  BY <1>2 DEF Buffer
<1>5. result' \in [Grants -> Buffer \cup {NONE}] /\ result'[g] = r
      /\ \A h \in Grants : h # g => result'[h] = result[h]
  BY <1>1, <1>3, <1>4 DEF TypeOK
<1>6. worker'[g] = "none" /\ output'[g] = NONE /\ hold'[g] = EnvelopeBytes
  BY <1>1, <1>2, <1>3 DEF CloseChild, TypeOK
<1>7. r.bytes <= Envelope.output /\ r.kept = NONE
  BY <1>2, GrantsAssumption
<1>8. EnvelopeHeld(g)'
  BY <1>5, <1>6, <1>7 DEF EnvelopeHeld
<1> QED
  BY <1>3, <1>4, <1>5, <1>8, CloseChildStep

LEMMA AbandonStep ==
  ASSUME IInv, NEW g \in Grants, Abandon(g)
  PROVE  IInv'
<1> DEFINE spare == IF output[g] = NONE THEN 0 ELSE output[g]
<1>1. TypeOK /\ EnvelopeHeld(g) /\ spare \in Nat
  BY DEF IInv, TypeOK
<1>2. CloseChild(g, spare) /\ UNCHANGED <<slot, hold, result>> /\ worker[g] # "none"
  BY DEF Abandon
<1>3. worker'[g] = "none" /\ output'[g] = NONE
  BY <1>1, <1>2 DEF CloseChild, TypeOK
<1>4. EnvelopeHeld(g)'
  BY <1>1, <1>2, <1>3 DEF EnvelopeHeld
<1> HIDE DEF spare
<1> QED
  BY <1>1, <1>2, <1>4, CloseChildStep DEF TypeOK

-----------------------------------------------------------------------------
(* The coordinator's steps.                                                *)

\* They change the request's ledger only, so the workers' stay exact.
LEMMA CoordinatorStep ==
  ASSUME IInv, NEW l \in Ledger, Sound(l, LimitsOf(Parent)),
         ledger' = [ledger EXCEPT ![Parent] = l],
         UNCHANGED <<tripped, live, slot, output, foreign>>,
         worker' \in [Grants -> {"none", "budget", "open"}],
         \A g \in Grants : worker'[g] = "open" <=> worker[g] = "open",
         hold' \in [Grants -> Nat \cup {NONE}],
         result' \in [Grants -> Buffer \cup {NONE}],
         \A g \in Grants : EnvelopeHeld(g)'
  PROVE  IInv'
<1>1. TypeOK /\ Books(ledger) /\ Parent \in Accounts
  BY DEF IInv, Accounts
<1>2. Books(ledger')
  BY <1>1, BooksChanged
<1>3. TypeOK'
  BY <1>1, <1>2 DEF TypeOK, Books
<1>4. ASSUME NEW g \in Grants PROVE Shut(g)' /\ ChildExact(g)'
  <2>1. Shut(g) /\ ChildExact(g) /\ g \in Accounts /\ g # Parent
    BY GrantsAssumption DEF IInv, Accounts
  <2>2. ledger'[g] = ledger[g]
    BY <1>1, <2>1 DEF TypeOK
  <2> QED
    BY <2>1, <2>2 DEF Shut, ChildExact, OnChild
<1> QED
  BY <1>2, <1>3, <1>4 DEF IInv

LEMMA EnvelopeTyped == EnvelopeBytes \in Nat /\ Envelope.output \in Nat /\ Envelope.output <= EnvelopeBytes
BY GrantsAssumption DEF EnvelopeBytes

LEMMA ParentReleased ==
  ASSUME IInv, NEW l \in Ledger, Sound(l, LimitsOf(Parent)), NEW c \in Category, NEW n \in Nat
  PROVE  Released(l, c, n) \in Ledger /\ Sound(Released(l, c, n), LimitsOf(Parent))
BY LimitsTyped, ReleasedSound DEF Accounts

LEMMA ParentBooks ==
  ASSUME IInv
  PROVE  ledger[Parent] \in Ledger /\ Sound(ledger[Parent], LimitsOf(Parent))
BY DEF IInv, Books, Accounts

LEMMA WithoutBufferBooks ==
  ASSUME IInv, NEW g \in Grants, result[g] # NONE
  PROVE  WithoutBuffer(ledger[Parent], g) \in Ledger
         /\ Sound(WithoutBuffer(ledger[Parent], g), LimitsOf(Parent))
<1>1. result[g].bytes \in Nat
  BY DEF IInv, TypeOK, Buffer
<1> QED
  BY <1>1, ParentBooks, ParentReleased DEF WithoutBuffer, Category

LEMMA ReserveStep ==
  ASSUME IInv, NEW g \in Grants, Reserve(g)
  PROVE  IInv'
<1> DEFINE l == Charged(ledger[Parent], "Working", EnvelopeBytes)
<1>1. TypeOK /\ Parent \in Accounts
  BY DEF IInv, Accounts
<1>2. /\ worker[g] = "none" /\ result[g] = NONE
      /\ Admits(ledger[Parent], LimitsOf(Parent), "Working", EnvelopeBytes)
      /\ ledger' = [ledger EXCEPT ![Parent] = l]
      /\ hold' = [hold EXCEPT ![g] = EnvelopeBytes]
      /\ worker' = [worker EXCEPT ![g] = "budget"]
      /\ UNCHANGED <<tripped, live, slot, output, result, foreign>>
  BY DEF Reserve
<1>3. l \in Ledger /\ Sound(l, LimitsOf(Parent))
  BY <1>1, <1>2, ParentBooks, LimitsTyped, ChargedSound, EnvelopeTyped DEF Category
<1>4. ASSUME NEW h \in Grants PROVE EnvelopeHeld(h)' /\ (worker'[h] = "open" <=> worker[h] = "open")
  <2>1. EnvelopeHeld(h)
    BY DEF IInv
  <2> QED
    BY <1>1, <1>2, <2>1 DEF TypeOK, EnvelopeHeld
<1>5. hold' \in [Grants -> Nat \cup {NONE}] /\ worker' \in [Grants -> {"none", "budget", "open"}]
      /\ result' \in [Grants -> Buffer \cup {NONE}]
  BY <1>1, <1>2, EnvelopeTyped DEF TypeOK
<1> HIDE DEF l
<1> QED
  BY <1>2, <1>3, <1>4, <1>5, CoordinatorStep

LEMMA DropHoldStep ==
  ASSUME IInv, NEW g \in Grants, DropHold(g)
  PROVE  IInv'
<1> DEFINE l == Released(ledger[Parent], "Working", hold[g])
<1>1. TypeOK /\ hold[g] \in Nat
  BY DEF IInv, DropHold, TypeOK
<1>2. /\ worker[g] = "none" /\ result[g] = NONE
      /\ ledger' = [ledger EXCEPT ![Parent] = l]
      /\ hold' = [hold EXCEPT ![g] = NONE]
      /\ UNCHANGED <<tripped, live, worker, slot, output, result, foreign>>
  BY DEF DropHold
<1>3. l \in Ledger /\ Sound(l, LimitsOf(Parent))
  BY <1>1, ParentBooks, ParentReleased DEF Category
<1>4. ASSUME NEW h \in Grants PROVE EnvelopeHeld(h)'
  <2>1. EnvelopeHeld(h)
    BY DEF IInv
  <2> QED
    BY <1>1, <1>2, <2>1 DEF TypeOK, EnvelopeHeld
<1>5. hold' \in [Grants -> Nat \cup {NONE}] /\ worker' \in [Grants -> {"none", "budget", "open"}]
      /\ result' \in [Grants -> Buffer \cup {NONE}]
  BY <1>1, <1>2 DEF TypeOK
<1> HIDE DEF l
<1> QED
  BY <1>2, <1>3, <1>4, <1>5, CoordinatorStep

LEMMA AdoptStep ==
  ASSUME IInv, NEW g \in Grants, Adopt(g)
  PROVE  IInv'
<1> DEFINE kept == Lower(result[g].bytes, hold[g])
           l == Released(ledger[Parent], "Working", hold[g] - kept)
           r == [bytes |-> result[g].bytes, died |-> result[g].died, kept |-> kept]
<1>1. TypeOK /\ EnvelopeHeld(g) /\ hold[g] \in Nat /\ hold[g] = EnvelopeBytes
      /\ result[g] \in Buffer /\ result[g] # NONE
  BY DEF IInv, Adopt, TypeOK, EnvelopeHeld
<1>2. /\ ledger' = [ledger EXCEPT ![Parent] = l]
      /\ result' = [result EXCEPT ![g] = r]
      /\ hold' = [hold EXCEPT ![g] = NONE]
      /\ UNCHANGED <<tripped, live, worker, slot, output, foreign>>
  BY DEF Adopt
<1>3. kept \in Nat /\ kept <= hold[g] /\ hold[g] - kept \in Nat /\ result[g].bytes \in Nat
  BY <1>1 DEF Buffer, Lower
<1>4. l \in Ledger /\ Sound(l, LimitsOf(Parent))
  BY <1>3, ParentBooks, ParentReleased DEF Category
<1>5. r \in Buffer /\ worker[g] = "none"
  BY <1>1, <1>3 DEF Buffer, EnvelopeHeld
<1>6. result[g].kept = NONE => result[g].bytes <= kept
  BY <1>1, <1>3, EnvelopeTyped DEF EnvelopeHeld, Lower
<1>7. result[g].kept = NONE
  BY DEF Adopt
<1>8. ASSUME NEW h \in Grants PROVE EnvelopeHeld(h)'
  <2>1. EnvelopeHeld(h)
    BY DEF IInv
  <2>2. CASE h = g
    <3>1. result'[g] = r /\ r.kept # NONE /\ r.bytes <= r.kept
      BY <1>1, <1>2, <1>3, <1>5, <1>6, <1>7, GrantsAssumption DEF TypeOK
    <3> QED
      BY <1>1, <1>2, <1>5, <2>1, <2>2, <3>1 DEF EnvelopeHeld, TypeOK
  <2>3. CASE h # g
    BY <1>1, <1>2, <2>1, <2>3 DEF EnvelopeHeld, TypeOK
  <2> QED
    BY <2>2, <2>3
<1>9. hold' \in [Grants -> Nat \cup {NONE}] /\ worker' \in [Grants -> {"none", "budget", "open"}]
      /\ result' \in [Grants -> Buffer \cup {NONE}]
  BY <1>1, <1>2, <1>5 DEF TypeOK
<1> HIDE DEF l, r, kept
<1> QED
  BY <1>2, <1>4, <1>8, <1>9, CoordinatorStep

LEMMA AdoptCrossedStep ==
  ASSUME IInv, NEW g \in Grants, NEW h \in Grants, AdoptCrossed(g, h)
  PROVE  IInv'
<1> DEFINE l == Released(WithoutBuffer(ledger[Parent], h), "Working", hold[g])
<1>1. TypeOK /\ hold[g] \in Nat /\ g # h /\ worker[g] = "none" /\ result[g] = NONE
      /\ result[h] # NONE
  BY DEF IInv, AdoptCrossed, TypeOK
<1>2. /\ ledger' = [ledger EXCEPT ![Parent] = l]
      /\ hold' = [hold EXCEPT ![g] = NONE]
      /\ result' = [result EXCEPT ![h] = NONE]
      /\ UNCHANGED <<tripped, live, worker, slot, output, foreign>>
  BY DEF AdoptCrossed
<1>3. l \in Ledger /\ Sound(l, LimitsOf(Parent))
  BY <1>1, WithoutBufferBooks, ParentReleased DEF Category
<1>4. ASSUME NEW k \in Grants PROVE EnvelopeHeld(k)'
  <2>1. EnvelopeHeld(k)
    BY DEF IInv
  <2>2. CASE k = g
    <3>1. hold'[g] = NONE /\ worker'[g] = "none" /\ result'[g] = NONE
      BY <1>1, <1>2 DEF TypeOK
    <3> QED
      BY <1>2, <2>1, <2>2, <3>1 DEF EnvelopeHeld
  <2>3. CASE k # g
    <3>1. hold'[k] = hold[k] /\ result'[k] = IF k = h THEN NONE ELSE result[k]
      BY <1>1, <1>2, <2>3 DEF TypeOK
    <3> QED
      BY <1>1, <1>2, <2>1, <3>1 DEF EnvelopeHeld
  <2> QED
    BY <2>2, <2>3
<1>5. hold' \in [Grants -> Nat \cup {NONE}] /\ worker' \in [Grants -> {"none", "budget", "open"}]
      /\ result' \in [Grants -> Buffer \cup {NONE}]
  BY <1>1, <1>2 DEF TypeOK
<1> HIDE DEF l
<1> QED
  BY <1>2, <1>3, <1>4, <1>5, CoordinatorStep

LEMMA DropResultStep ==
  ASSUME IInv, NEW g \in Grants, DropResult(g)
  PROVE  IInv'
<1> DEFINE kept == IF result[g].kept = NONE THEN 0 ELSE result[g].kept
           l == Released(WithoutBuffer(ledger[Parent], g), "Working", kept)
<1>1. TypeOK /\ result[g] # NONE /\ result[g] \in Buffer
  BY DEF IInv, DropResult, TypeOK
<1>2. /\ ledger' = [ledger EXCEPT ![Parent] = l]
      /\ result' = [result EXCEPT ![g] = NONE]
      /\ UNCHANGED <<tripped, live, worker, slot, output, hold, foreign>>
  BY DEF DropResult
<1>3. kept \in Nat
  BY <1>1 DEF Buffer
<1>4. l \in Ledger /\ Sound(l, LimitsOf(Parent))
  BY <1>1, <1>3, WithoutBufferBooks, ParentReleased DEF Category
<1>5. ASSUME NEW h \in Grants PROVE EnvelopeHeld(h)'
  <2>1. EnvelopeHeld(h)
    BY DEF IInv
  <2>2. result'[h] = IF h = g THEN NONE ELSE result[h]
    BY <1>1, <1>2 DEF TypeOK
  <2> QED
    BY <1>2, <2>1, <2>2 DEF EnvelopeHeld
<1>6. hold' \in [Grants -> Nat \cup {NONE}] /\ worker' \in [Grants -> {"none", "budget", "open"}]
      /\ result' \in [Grants -> Buffer \cup {NONE}]
  BY <1>1, <1>2 DEF TypeOK
<1> HIDE DEF l, kept
<1> QED
  BY <1>2, <1>4, <1>5, <1>6, CoordinatorStep

-----------------------------------------------------------------------------
(* The specification.                                                      *)

LEMMA NextStep == IInv /\ [Next]_vars => IInv'
<1> SUFFICES ASSUME IInv, [Next]_vars PROVE IInv'
  OBVIOUS
<1>1. CASE Allocator
  <2>1. PICK a \in Current :
          \/ \E c \in Category, n \in Sizes : Allocate(a, c, n) \/ Deallocate(a, c, n)
          \/ \E n \in ForeignSizes : DeallocateForeign(a, n)
    BY <1>1 DEF Allocator
  <2> QED
    BY <2>1, AllocateStep, DeallocateStep, DeallocateForeignStep
<1>2. ASSUME NEW g \in Grants,
             \/ Reserve(g) \/ OpenChild(g) \/ Detach(g) \/ Abandon(g)
             \/ DropHold(g) \/ Adopt(g) \/ DropResult(g)
      PROVE  IInv'
  BY <1>2, ReserveStep, OpenChildStep, DetachStep, AbandonStep, DropHoldStep, AdoptStep, DropResultStep
<1>3. ASSUME NEW g \in Grants, NEW n \in Sizes \cup {0}, MakeOutput(g, n)
      PROVE  IInv'
  <2>1. n \in Nat
    BY GrantsAssumption
  <2> QED
    BY <1>3, <2>1, MakeOutputStep
<1>4. ASSUME NEW g \in Grants, NEW h \in Grants, AdoptCrossed(g, h)
      PROVE  IInv'
  BY <1>4, AdoptCrossedStep
<1>5. CASE UNCHANGED vars
  BY <1>5 DEF vars, IInv, TypeOK, Books, Shut, ChildExact, OnChild, EnvelopeHeld
<1> QED
  BY <1>1, <1>2, <1>3, <1>4, <1>5 DEF Next

LEMMA Invariance == Spec => []IInv
BY InitHolds, NextStep, PTL DEF Spec

\* The types of TaskGrants: in particular no release ever takes a counter below
\* zero (account.rs, release_residency).
THEOREM GrantsTypeCorrect == Spec => []TypeOK
<1>1. IInv => TypeOK
  BY DEF IInv
<1> QED
  BY <1>1, Invariance, PTL

\* Whatever is allocated, freed, reserved, detached or dropped, by any number of
\* workers, a ledger's total is that of its categories and no ceiling is passed.
THEOREM LedgersAreSound == Spec => []LedgersSound
<1>1. IInv => LedgersSound
  BY DEF IInv, Books, LedgersSound
<1> QED
  BY <1>1, Invariance, PTL

\* A worker with an open ledger has its envelope held on the request's for as
\* long as it runs, and a result never outgrows what is kept for it
\* (task.rs, TaskGrantReservation).
THEOREM WorkersAreCovered == Spec => []CoveredByHold
<1>1. ASSUME IInv PROVE CoveredByHold
  <2> SUFFICES ASSUME NEW g \in Grants
               PROVE  /\ worker[g] = "open" => hold[g] # NONE /\ ledger[g].total <= hold[g]
                      /\ result[g] # NONE =>
                           result[g].bytes <=
                             IF result[g].kept = NONE THEN Envelope.output ELSE result[g].kept
    BY DEF CoveredByHold
  <2>1. EnvelopeHeld(g) /\ g \in Accounts /\ g # Parent
    BY <1>1, GrantsAssumption DEF IInv, Accounts
  <2>2. ledger[g].total <= EnvelopeBytes
    BY <1>1, <2>1 DEF IInv, Books, Sound, LimitsOf
  <2>3. EnvelopeBytes # NONE
    BY EnvelopeTyped, GrantsAssumption
  <2> QED
    BY <2>1, <2>2, <2>3 DEF EnvelopeHeld
<1> QED
  BY <1>1, Invariance, PTL

\* verify_child_quiescence passes a child that charged everything it freed
\* exactly when it holds nothing any more but its result.
THEOREM QuietCheckIsExact == Spec => []QuietIsExact
<1>1. ASSUME IInv PROVE QuietIsExact
  <2> SUFFICES ASSUME NEW g \in Grants,
                      worker[g] = "open", slot[g] = g, output[g] # NONE, ~foreign[g]
               PROVE  Quiet(ledger[g], output[g]) <=> live[g] = Nothing
    BY DEF QuietIsExact
  <2>1. ChildExact(g) /\ Sound(ledger[g], LimitsOf(g)) /\ g \in Accounts
    BY <1>1 DEF IInv, Books, Accounts
  <2>2. /\ live[g] \in [Category -> Nat] /\ ledger[g] \in Ledger
        /\ output[g] \in Nat /\ LedgerBytes \in Nat
    BY <1>1, <2>1, GrantsAssumption DEF IInv, TypeOK
  <2>3. OnChild(g) = output[g]
    BY DEF OnChild, Bytes
  <2>4. live[g] = Nothing <=> \A c \in Category : live[g][c] = 0
    BY <2>2 DEF Nothing
  <2>5. (\A c \in Category : live[g][c] = 0) <=>
          /\ live[g]["Retained"] = 0 /\ live[g]["Working"] = 0
          /\ live[g]["Diagnostic"] = 0 /\ live[g]["PendingIo"] = 0
    BY DEF Category
  <2>6. /\ live[g]["Retained"] \in Nat /\ live[g]["Working"] \in Nat
        /\ live[g]["Diagnostic"] \in Nat /\ live[g]["PendingIo"] \in Nat
    BY <2>2 DEF Category
  <2>7. ledger[g].total = live[g]["Retained"] + LedgerBytes + live[g]["Working"]
                            + live[g]["Diagnostic"] + live[g]["PendingIo"] + output[g]
    BY <2>1, <2>2, <2>3, <2>6 DEF ChildExact, Sound
  <2> QED
    BY <2>1, <2>2, <2>4, <2>5, <2>6, <2>7 DEF Quiet, ChildExact
<1> QED
  BY <1>1, Invariance, PTL

-----------------------------------------------------------------------------
(* What is charged to the request, in sums over the envelopes.             *)

HeldSum == SumFunctionOnSet(HeldBytes, Grants)
ParentSum == SumFunctionOnSet(ParentBytes, Grants)

\* ParentExact, a category at a time.
ParentInv ==
  ~foreign[Parent] =>
    /\ ledger[Parent].cur["Retained"] = live[Parent]["Retained"] + LedgerBytes
    /\ ledger[Parent].cur["Working"] = live[Parent]["Working"] + HeldSum
    /\ ledger[Parent].cur["Diagnostic"] = live[Parent]["Diagnostic"]
    /\ ledger[Parent].cur["PendingIo"] = live[Parent]["PendingIo"] + ParentSum

\* What an envelope stands for is a number, before a step and after it.
LEMMA BytesTyped ==
  TypeOK => HeldBytes \in [Grants -> Nat] /\ ParentBytes \in [Grants -> Nat]
<1> SUFFICES ASSUME TypeOK, NEW g \in Grants PROVE Held(g) \in Nat /\ OnParent(g) \in Nat
  BY DEF HeldBytes, ParentBytes
<1>1. /\ hold[g] \in Nat \cup {NONE} /\ output[g] \in Nat \cup {NONE}
      /\ result[g] # NONE => /\ result[g].bytes \in Nat /\ result[g].kept \in Nat \cup {NONE}
  BY DEF TypeOK, Buffer
<1>2. \A x \in Nat \cup {NONE} : Bytes(x) \in Nat
  BY DEF Bytes
<1>3. /\ Bytes(hold[g]) \in Nat /\ Bytes(output[g]) \in Nat
      /\ result[g] # NONE => result[g].bytes \in Nat /\ Bytes(result[g].kept) \in Nat
  BY <1>1, <1>2
<1>4. Held(g) \in Nat
  BY <1>3 DEF Held
<1>5. OnParent(g) \in Nat
  BY <1>3 DEF OnParent
<1> QED
  BY <1>4, <1>5

LEMMA BytesTypedNext ==
  TypeOK' => (HeldBytes \in [Grants -> Nat])' /\ (ParentBytes \in [Grants -> Nat])'
  BY BytesTyped, PTL

\* The sums are numbers at least as large as each of what they add up.
LEMMA SumsTyped ==
  ASSUME TypeOK
  PROVE  /\ HeldSum \in Nat /\ ParentSum \in Nat
         /\ \A g \in Grants : /\ Held(g) \in Nat /\ Held(g) <= HeldSum
                              /\ OnParent(g) \in Nat /\ OnParent(g) <= ParentSum
<1>1. HeldSum \in Nat /\ \A g \in Grants : HeldBytes[g] <= HeldSum
  BY BytesTyped, SumOfNaturals, GrantsAssumption DEF HeldSum
<1>2. ParentSum \in Nat /\ \A g \in Grants : ParentBytes[g] <= ParentSum
  BY BytesTyped, SumOfNaturals, GrantsAssumption DEF ParentSum
<1>3. \A g \in Grants : HeldBytes[g] = Held(g) /\ ParentBytes[g] = OnParent(g)
  BY DEF HeldBytes, ParentBytes
<1>4. \A g \in Grants : HeldBytes[g] \in Nat /\ ParentBytes[g] \in Nat
  BY BytesTyped
<1> QED
  BY <1>1, <1>2, <1>3, <1>4

\* A step that changes what one envelope stands for changes the sum by as much.
LEMMA HeldMoves ==
  ASSUME TypeOK, TypeOK', NEW g \in Grants, \A h \in Grants \ {g} : Held(h)' = Held(h)
  PROVE  HeldSum' = HeldSum - Held(g) + Held(g)'
<1>1. HeldBytes \in [Grants -> Int] /\ HeldBytes' \in [Grants -> Int]
  BY BytesTyped, BytesTypedNext
<1>2. \A h \in Grants \ {g} : HeldBytes'[h] = HeldBytes[h]
  BY DEF HeldBytes
<1>3. HeldBytes[g] = Held(g) /\ HeldBytes'[g] = Held(g)'
  BY DEF HeldBytes
<1>4. SumFunctionOnSet(HeldBytes', Grants) =
        SumFunctionOnSet(HeldBytes, Grants) - HeldBytes[g] + HeldBytes'[g]
  BY <1>1, <1>2, GrantsAssumption, SumChanges
<1> QED
  BY <1>3, <1>4 DEF HeldSum

LEMMA ChargeMoves ==
  ASSUME TypeOK, TypeOK', NEW g \in Grants, \A h \in Grants \ {g} : OnParent(h)' = OnParent(h)
  PROVE  ParentSum' = ParentSum - OnParent(g) + OnParent(g)'
<1>1. ParentBytes \in [Grants -> Int] /\ ParentBytes' \in [Grants -> Int]
  BY BytesTyped, BytesTypedNext
<1>2. \A h \in Grants \ {g} : ParentBytes'[h] = ParentBytes[h]
  BY DEF ParentBytes
<1>3. ParentBytes[g] = OnParent(g) /\ ParentBytes'[g] = OnParent(g)'
  BY DEF ParentBytes
<1>4. SumFunctionOnSet(ParentBytes', Grants) =
        SumFunctionOnSet(ParentBytes, Grants) - ParentBytes[g] + ParentBytes'[g]
  BY <1>1, <1>2, GrantsAssumption, SumChanges
<1> QED
  BY <1>3, <1>4 DEF ParentSum

\* A step that changes none of them changes no sum.
LEMMA SumsStay ==
  ASSUME \A h \in Grants : Held(h)' = Held(h) /\ OnParent(h)' = OnParent(h)
  PROVE  HeldSum' = HeldSum /\ ParentSum' = ParentSum
<1>1. HeldBytes' = HeldBytes /\ ParentBytes' = ParentBytes
  BY DEF HeldBytes, ParentBytes
<1> QED
  BY <1>1 DEF HeldSum, ParentSum

\* What a charge and a release do to the categories.
LEMMA ChargedTo ==
  ASSUME NEW l \in Ledger, NEW c \in Category, NEW n \in Nat
  PROVE  Charged(l, c, n).cur = [d \in Category |-> IF d = c THEN l.cur[d] + n ELSE l.cur[d]]
BY DEF Charged, Ledger

LEMMA ReleasedFrom ==
  ASSUME NEW l \in Ledger, NEW c \in Category, NEW n \in Nat, n <= l.cur[c]
  PROVE  Released(l, c, n).cur = [d \in Category |-> IF d = c THEN l.cur[d] - n ELSE l.cur[d]]
<1>1. l.cur \in [Category -> Nat] /\ l.cur[c] \in Nat
  BY DEF Ledger
<1>2. Lower(n, l.cur[c]) = n
  BY <1>1 DEF Lower
<1> QED
  BY <1>1, <1>2 DEF Released

-----------------------------------------------------------------------------
(* Each step keeps the request's ledger exact.                             *)

\* A step that leaves the request's ledger and what is charged to it alone.
LEMMA ParentAside ==
  ASSUME ParentInv, ledger'[Parent] = ledger[Parent], live'[Parent] = live[Parent],
         foreign'[Parent] = foreign[Parent],
         \A h \in Grants : Held(h)' = Held(h) /\ OnParent(h)' = OnParent(h)
  PROVE  ParentInv'
<1>1. HeldSum' = HeldSum /\ ParentSum' = ParentSum
  BY SumsStay
<1> QED
  BY <1>1 DEF ParentInv

LEMMA AllocatorParent ==
  ASSUME IInv, ParentInv, Allocator
  PROVE  ParentInv'
<1> USE DEF Held, OnParent
<1>1. TypeOK /\ Parent \in Accounts
  BY DEF IInv, Accounts
<1>2. PICK a \in Current :
        \/ \E c \in Category, n \in Sizes : Allocate(a, c, n) \/ Deallocate(a, c, n)
        \/ \E n \in ForeignSizes : DeallocateForeign(a, n)
  BY DEF Allocator
<1>3. a \in Accounts
  BY <1>1, CurrentAccount
<1>4. UNCHANGED <<worker, slot, output, hold, result>>
  BY <1>2 DEF Allocate, Deallocate, DeallocateForeign
<1>5. \A h \in Grants : Held(h)' = Held(h) /\ OnParent(h)' = OnParent(h)
  BY <1>4
<1>6. CASE a # Parent
  <2>1. ledger'[Parent] = ledger[Parent] /\ live'[Parent] = live[Parent]
        /\ foreign'[Parent] = foreign[Parent]
    BY <1>1, <1>2, <1>3, <1>6 DEF Allocate, Deallocate, DeallocateForeign, TypeOK
  <2> QED
    BY <1>5, <2>1, ParentAside
<1>7. CASE a = Parent
  <2>1. /\ ledger[Parent] \in Ledger /\ ledger[Parent].cur \in [Category -> Nat]
        /\ live[Parent] \in [Category -> Nat] /\ LedgerBytes \in Nat
    BY <1>1, GrantsAssumption DEF TypeOK, Ledger
  <2>2. HeldSum' = HeldSum /\ ParentSum' = ParentSum
    BY <1>5, SumsStay
  <2>3. HeldSum \in Nat /\ ParentSum \in Nat
    BY <1>1, SumsTyped
  <2> HIDE DEF Held, OnParent
  <2>4. ASSUME NEW c \in Category, NEW n \in Sizes, Allocate(Parent, c, n)
        PROVE  ParentInv'
    <3>1. n \in Nat
      BY GrantsAssumption
    <3>2. CASE Admits(ledger[Parent], LimitsOf(Parent), c, n)
      <4>1. /\ ledger'[Parent] = Charged(ledger[Parent], c, n)
            /\ live'[Parent] = [live[Parent] EXCEPT ![c] = @ + n]
            /\ foreign' = foreign
        BY <1>1, <2>4, <3>2 DEF Allocate, TypeOK
      <4>2. ledger'[Parent].cur = [d \in Category |->
              IF d = c THEN ledger[Parent].cur[d] + n ELSE ledger[Parent].cur[d]]
        <5>1. Charged(ledger[Parent], c, n).cur = [d \in Category |->
                IF d = c THEN ledger[Parent].cur[d] + n ELSE ledger[Parent].cur[d]]
          BY <2>1, <3>1, ChargedTo
        <5> QED
          BY <4>1, <5>1
      <4>3. \A d \in Category :
              live'[Parent][d] = IF d = c THEN live[Parent][d] + n ELSE live[Parent][d]
        BY <2>1, <4>1
      <4> QED
        BY <2>1, <2>2, <2>3, <3>1, <4>1, <4>2, <4>3 DEF ParentInv, Category
    <3>3. CASE ~Admits(ledger[Parent], LimitsOf(Parent), c, n)
      <4>1. UNCHANGED <<ledger, live, foreign>>
        BY <2>4, <3>3 DEF Allocate
      <4> QED
        BY <2>2, <4>1 DEF ParentInv
    <3> QED
      BY <3>2, <3>3
  <2>5. ASSUME NEW c \in Category, NEW n \in Sizes, Deallocate(Parent, c, n)
        PROVE  ParentInv'
    <3>1. n \in Nat
      BY GrantsAssumption
    <3>2. /\ ledger'[Parent] = Released(ledger[Parent], c, n) /\ n <= live[Parent][c]
          /\ live'[Parent] = [live[Parent] EXCEPT ![c] = @ - n]
          /\ foreign' = foreign
      BY <1>1, <2>5 DEF Deallocate, TypeOK
    <3> SUFFICES ASSUME ~foreign[Parent] PROVE ParentInv'
      BY <3>2 DEF ParentInv
    <3>3. n <= ledger[Parent].cur[c]
      BY <2>1, <2>3, <3>1, <3>2 DEF ParentInv, Category
    <3>4. ledger'[Parent].cur = [d \in Category |->
            IF d = c THEN ledger[Parent].cur[d] - n ELSE ledger[Parent].cur[d]]
      <4> DEFINE l == ledger[Parent]
      <4>1. l \in Ledger /\ n <= l.cur[c]
        BY <2>1, <3>3
      <4> HIDE DEF l
      <4>2. Released(l, c, n).cur = [d \in Category |-> IF d = c THEN l.cur[d] - n ELSE l.cur[d]]
        BY <3>1, <4>1, ReleasedFrom
      <4>3. ledger'[Parent] = Released(l, c, n)
        BY <3>2 DEF l
      <4> QED
        BY <4>2, <4>3, Zenon DEF l
    <3>5. \A d \in Category :
            live'[Parent][d] = IF d = c THEN live[Parent][d] - n ELSE live[Parent][d]
      BY <2>1, <3>2
    <3> QED
      BY <2>1, <2>2, <2>3, <3>1, <3>2, <3>4, <3>5 DEF ParentInv, Category
  <2>6. ASSUME NEW n \in ForeignSizes, DeallocateForeign(Parent, n)
        PROVE  ParentInv'
    <3>1. foreign'[Parent]
      BY <1>1, <2>6 DEF DeallocateForeign, TypeOK
    <3> QED
      BY <3>1 DEF ParentInv
  <2> QED
    BY <1>2, <1>7, <2>4, <2>5, <2>6
<1> QED
  BY <1>6, <1>7

\* A worker changes the request's ledger only by the storage of its result.
LEMMA OpenChildParent ==
  ASSUME IInv, ParentInv, NEW g \in Grants, OpenChild(g)
  PROVE  ParentInv'
<1>1. TypeOK /\ Shut(g) /\ g # Parent /\ worker[g] = "budget"
  BY GrantsAssumption DEF IInv, OpenChild
<1>2. /\ ledger' = [ledger EXCEPT ![g] = Opened(LedgerBytes)] /\ output[g] = NONE
      /\ \A h \in Grants \ {g} : slot'[h] = slot[h]
      /\ UNCHANGED <<live, output, hold, result, foreign>>
  BY <1>1 DEF OpenChild, TypeOK, Shut
<1>3. ledger'[Parent] = ledger[Parent]
  BY <1>1, <1>2 DEF TypeOK
<1>4. \A h \in Grants : Held(h)' = Held(h) /\ OnParent(h)' = OnParent(h)
  BY <1>2 DEF Held, OnParent, Bytes
<1> QED
  BY <1>2, <1>3, <1>4, ParentAside

LEMMA MakeOutputParent ==
  ASSUME IInv, IInv', ParentInv, NEW g \in Grants, NEW n \in Nat, MakeOutput(g, n)
  PROVE  ParentInv'
<1>1. TypeOK /\ TypeOK' /\ Parent \in Accounts /\ slot[g] \in {g, Parent} /\ g # Parent
      /\ result[g] = NONE
  BY GrantsAssumption DEF IInv, Accounts, TypeOK, MakeOutput, EnvelopeHeld
<1>2. output[g] = NONE /\ UNCHANGED <<live, slot, hold, result, foreign>>
  BY DEF MakeOutput
<1>3. CASE ~Admits(ledger[slot[g]], LimitsOf(slot[g]), "PendingIo", n)
  <2>1. UNCHANGED <<ledger, output>>
    BY <1>3 DEF MakeOutput
  <2>2. \A h \in Grants : Held(h)' = Held(h) /\ OnParent(h)' = OnParent(h)
    BY <1>2, <2>1 DEF Held, OnParent
  <2> QED
    BY <1>2, <2>1, <2>2, ParentAside
<1>4. CASE Admits(ledger[slot[g]], LimitsOf(slot[g]), "PendingIo", n)
  <2>1. /\ ledger' = [ledger EXCEPT ![slot[g]] = Charged(ledger[slot[g]], "PendingIo", n)]
        /\ output' = [output EXCEPT ![g] = n]
    BY <1>4 DEF MakeOutput
  <2>2. output'[g] = n /\ \A h \in Grants \ {g} : output'[h] = output[h]
    BY <1>1, <2>1 DEF TypeOK
  <2>3. \A h \in Grants \ {g} : Held(h)' = Held(h) /\ OnParent(h)' = OnParent(h)
    BY <1>2, <2>2 DEF Held, OnParent
  <2>4. CASE slot[g] = g
    <3>1. ledger'[Parent] = ledger[Parent]
      BY <1>1, <2>1, <2>4 DEF TypeOK
    <3>2. Held(g)' = Held(g) /\ OnParent(g)' = OnParent(g)
      BY <1>1, <1>2, <2>4 DEF Held, OnParent
    <3> QED
      BY <1>2, <2>3, <3>1, <3>2, ParentAside
  <2>5. CASE slot[g] = Parent
    <3>1. ledger'[Parent] = Charged(ledger[Parent], "PendingIo", n)
      BY <1>1, <2>1, <2>5 DEF TypeOK
    <3>2. /\ ledger[Parent] \in Ledger /\ ledger[Parent].cur \in [Category -> Nat]
          /\ live[Parent] \in [Category -> Nat]
      BY <1>1 DEF TypeOK, Ledger
    <3>3. ledger'[Parent].cur = [d \in Category |->
            IF d = "PendingIo" THEN ledger[Parent].cur[d] + n ELSE ledger[Parent].cur[d]]
      BY <3>1, <3>2, ChargedTo DEF Category
    <3>4. /\ Held(g)' = Held(g)
          /\ OnParent(g) = 0 /\ OnParent(g)' = n
      <4>1. n # NONE
        BY GrantsAssumption
      <4> QED
        BY <1>1, <1>2, <2>2, <2>5, <4>1 DEF Held, OnParent, Bytes
    <3>5. /\ HeldSum' = HeldSum - Held(g) + Held(g)'
          /\ ParentSum' = ParentSum - OnParent(g) + OnParent(g)'
      BY <1>1, <2>3, HeldMoves, ChargeMoves
    <3>6. HeldSum \in Nat /\ ParentSum \in Nat /\ Held(g) \in Nat
      BY <1>1, SumsTyped
    <3>7. HeldSum' = HeldSum /\ ParentSum' = ParentSum + n
      BY <3>4, <3>5, <3>6
    <3> QED
      BY <1>2, <3>2, <3>3, <3>6, <3>7 DEF ParentInv, Category
  <2> QED
    BY <1>1, <2>4, <2>5
<1> QED
  BY <1>3, <1>4

\* A step that moves the working and the pending bytes as it moves the sums.
LEMMA ParentMoved ==
  ASSUME TypeOK, ParentInv, NEW w \in Int, NEW q \in Int,
         live'[Parent] = live[Parent], foreign'[Parent] = foreign[Parent],
         ~foreign[Parent] =>
           ledger'[Parent].cur = [c \in Category |->
             ledger[Parent].cur[c] + CASE c = "Working" -> w
                                       [] c = "PendingIo" -> q
                                       [] OTHER -> 0],
         HeldSum' = HeldSum + w, ParentSum' = ParentSum + q
  PROVE  ParentInv'
<1> SUFFICES ASSUME ~foreign[Parent] PROVE ParentInv'
  BY DEF ParentInv
<1>1. /\ ledger[Parent].cur \in [Category -> Nat] /\ live[Parent] \in [Category -> Nat]
      /\ LedgerBytes \in Nat /\ HeldSum \in Nat /\ ParentSum \in Nat
  BY SumsTyped, GrantsAssumption DEF TypeOK, Ledger, Accounts
<1>2. /\ ledger'[Parent].cur["Retained"] = ledger[Parent].cur["Retained"]
      /\ ledger'[Parent].cur["Working"] = ledger[Parent].cur["Working"] + w
      /\ ledger'[Parent].cur["Diagnostic"] = ledger[Parent].cur["Diagnostic"]
      /\ ledger'[Parent].cur["PendingIo"] = ledger[Parent].cur["PendingIo"] + q
  BY <1>1 DEF Category
<1>3. /\ live[Parent]["Retained"] \in Nat /\ live[Parent]["Working"] \in Nat
      /\ live[Parent]["Diagnostic"] \in Nat /\ live[Parent]["PendingIo"] \in Nat
  BY <1>1 DEF Category
<1> QED
  BY <1>1, <1>2, <1>3 DEF ParentInv

\* A worker that ends gives back what it does not hand over.
LEMMA CloseChildParent ==
  ASSUME IInv, IInv', ParentInv, NEW g \in Grants, NEW n \in Nat, CloseChild(g, n),
         UNCHANGED <<slot, hold>>,
         \A h \in Grants \ {g} : result'[h] = result[h],
         Held(g)' = Held(g),
         slot[g] = Parent => n <= OnParent(g),
         OnParent(g)' = IF slot[g] = Parent THEN OnParent(g) - n ELSE OnParent(g)
  PROVE  ParentInv'
<1> DEFINE given == [ledger EXCEPT ![slot[g]] = Released(ledger[slot[g]], "PendingIo", n)]
           q == IF slot[g] = Parent THEN -n ELSE 0
<1>1. /\ TypeOK /\ TypeOK' /\ Parent \in Accounts /\ g # Parent /\ g \in Accounts
      /\ slot[g] \in {g, Parent} /\ "PendingIo" \in Category
  BY GrantsAssumption DEF IInv, Accounts, TypeOK, Category
<1>2. /\ ledger' = [given EXCEPT ![g] = Opened(LedgerBytes)]
      /\ live' = [live EXCEPT ![g] = Nothing]
      /\ foreign' = [foreign EXCEPT ![g] = FALSE]
      /\ output' = [output EXCEPT ![g] = NONE]
  BY DEF CloseChild
<1>3. live'[Parent] = live[Parent] /\ foreign'[Parent] = foreign[Parent]
  BY <1>1, <1>2 DEF TypeOK
<1>4. ledger'[Parent] = IF slot[g] = Parent THEN Released(ledger[Parent], "PendingIo", n)
                        ELSE ledger[Parent]
  BY <1>1, <1>2 DEF TypeOK
<1>5. \A h \in Grants \ {g} : Held(h)' = Held(h) /\ OnParent(h)' = OnParent(h)
  <2>1. \A h \in Grants \ {g} : output'[h] = output[h]
    BY <1>1, <1>2 DEF TypeOK
  <2> QED
    BY <2>1 DEF Held, OnParent
<1>6. HeldSum \in Nat /\ ParentSum \in Nat /\ Held(g) \in Nat /\ OnParent(g) \in Nat
      /\ OnParent(g) <= ParentSum
  BY <1>1, SumsTyped
<1>7. HeldSum' = HeldSum + 0 /\ ParentSum' = ParentSum + q
  <2>1. HeldSum' = HeldSum - Held(g) + Held(g)'
    BY <1>1, <1>5, HeldMoves
  <2>2. ParentSum' = ParentSum - OnParent(g) + OnParent(g)'
    BY <1>1, <1>5, ChargeMoves
  <2> QED
    BY <1>6, <2>1, <2>2
<1>8. ASSUME ~foreign[Parent]
      PROVE  ledger'[Parent].cur = [c \in Category |->
               ledger[Parent].cur[c] + CASE c = "Working" -> 0
                                         [] c = "PendingIo" -> q
                                         [] OTHER -> 0]
  <2>1. /\ ledger[Parent] \in Ledger /\ ledger[Parent].cur \in [Category -> Nat]
        /\ live[Parent]["PendingIo"] \in Nat
    BY <1>1 DEF TypeOK, Ledger
  <2>2. CASE slot[g] = Parent
    <3>1. n <= ledger[Parent].cur["PendingIo"]
      BY <1>6, <1>8, <2>1, <2>2 DEF ParentInv
    <3>2. Released(ledger[Parent], "PendingIo", n).cur = [d \in Category |->
            IF d = "PendingIo" THEN ledger[Parent].cur[d] - n ELSE ledger[Parent].cur[d]]
      BY <1>1, <2>1, <3>1, ReleasedFrom
    <3>3. \A c \in Category : ledger[Parent].cur[c] \in Nat
      BY <2>1
    <3> QED
      BY <1>4, <2>2, <3>2, <3>3
  <2>3. CASE slot[g] # Parent
    <3>1. ledger[Parent].cur = [c \in Category |-> ledger[Parent].cur[c]]
      BY <2>1
    <3>2. \A c \in Category : ledger[Parent].cur[c] \in Nat
      BY <2>1
    <3> QED
      BY <1>4, <2>3, <3>1, <3>2
  <2> QED
    BY <2>2, <2>3
<1>9. q \in Int /\ 0 \in Int
  OBVIOUS
<1> HIDE DEF q
<1> QED
  BY <1>1, <1>3, <1>7, <1>8, <1>9, ParentMoved

LEMMA DetachParent ==
  ASSUME IInv, IInv', ParentInv, NEW g \in Grants, Detach(g)
  PROVE  ParentInv'
<1>1. /\ TypeOK /\ EnvelopeHeld(g) /\ worker[g] = "open" /\ output[g] # NONE /\ g # Parent
      /\ slot[g] \in {g, Parent} /\ result[g] = NONE /\ output[g] \in Nat
  BY GrantsAssumption DEF IInv, Detach, EnvelopeHeld, TypeOK
<1>2. PICK written \in 0..output[g] :
        /\ CloseChild(g, output[g] - written)
        /\ result' = [result EXCEPT ![g] =
                        [bytes |-> written, died |-> output[g] > 0 /\ slot[g] = g, kept |-> NONE]]
        /\ UNCHANGED <<slot, hold>>
  BY DEF Detach
<1> DEFINE r == [bytes |-> written, died |-> output[g] > 0 /\ slot[g] = g, kept |-> NONE]
<1>3. output[g] - written \in Nat /\ r \in Buffer /\ written \in Nat /\ written <= output[g]
  BY <1>1 DEF Buffer
<1>4. result'[g] = r /\ \A h \in Grants \ {g} : result'[h] = result[h]
  BY <1>1, <1>2 DEF TypeOK
<1>5. r # NONE
  BY <1>3, GrantsAssumption
<1>6. output'[g] = NONE
  BY <1>1, <1>2 DEF CloseChild, TypeOK
<1>7. Held(g)' = Held(g)
  <2>1. Held(g)' = Bytes(hold[g]) + Bytes(NONE)
    BY <1>2, <1>4, <1>5 DEF Held
  <2>2. Held(g) = Bytes(hold[g]) + 0
    BY <1>1 DEF Held
  <2> QED
    BY <2>1, <2>2 DEF Bytes
<1>8. OnParent(g) = IF slot[g] = Parent THEN output[g] ELSE 0
  BY <1>1 DEF OnParent, Bytes
<1>9. OnParent(g)' = IF slot[g] = Parent THEN written ELSE 0
  <2>1. slot'[g] = slot[g] /\ (IF slot[g] = Parent THEN Bytes(output'[g]) ELSE 0) = 0
    BY <1>2, <1>6 DEF Bytes
  <2>2. OnParent(g)' = 0 + (IF ~r.died THEN written ELSE 0)
    BY <1>4, <1>5, <2>1 DEF OnParent
  <2>3. r.died <=> output[g] > 0 /\ slot[g] = g
    OBVIOUS
  <2>4. CASE slot[g] = Parent
    BY <1>1, <1>3, <2>2, <2>3, <2>4
  <2>5. CASE slot[g] = g
    BY <1>1, <1>3, <2>2, <2>3, <2>5
  <2> QED
    BY <1>1, <2>4, <2>5
<1>10. /\ slot[g] = Parent => output[g] - written <= OnParent(g)
       /\ OnParent(g)' = IF slot[g] = Parent THEN OnParent(g) - (output[g] - written)
                         ELSE OnParent(g)
  BY <1>1, <1>3, <1>8, <1>9
<1> QED
  BY <1>2, <1>3, <1>4, <1>7, <1>10, CloseChildParent

LEMMA AbandonParent ==
  ASSUME IInv, IInv', ParentInv, NEW g \in Grants, Abandon(g)
  PROVE  ParentInv'
<1> DEFINE spare == IF output[g] = NONE THEN 0 ELSE output[g]
<1>1. TypeOK /\ EnvelopeHeld(g) /\ result[g] = NONE /\ g # Parent
  BY GrantsAssumption DEF IInv, Abandon, EnvelopeHeld
<1>2. spare \in Nat /\ spare = Bytes(output[g])
  BY <1>1 DEF TypeOK, Bytes
<1>3. CloseChild(g, spare) /\ UNCHANGED <<slot, hold, result>>
  BY DEF Abandon
<1>4. output'[g] = NONE
  BY <1>1, <1>3 DEF CloseChild, TypeOK
<1>5. Held(g)' = Held(g)
  BY <1>3 DEF Held
<1>6. OnParent(g) = (IF slot[g] = Parent THEN spare ELSE 0) /\ OnParent(g)' = 0
  BY <1>1, <1>2, <1>3, <1>4 DEF OnParent, Bytes
<1> HIDE DEF spare
<1>7. /\ slot[g] = Parent => spare <= OnParent(g)
      /\ OnParent(g)' = IF slot[g] = Parent THEN OnParent(g) - spare ELSE OnParent(g)
  BY <1>2, <1>6
<1>8. \A h \in Grants \ {g} : result'[h] = result[h]
  BY <1>3
<1> QED
  BY <1>2, <1>3, <1>5, <1>7, <1>8, CloseChildParent

\* The coordinator's steps move the sums by what they charge and release.
LEMMA ReserveParent ==
  ASSUME IInv, IInv', ParentInv, NEW g \in Grants, Reserve(g)
  PROVE  ParentInv'
<1>1. /\ TypeOK /\ TypeOK' /\ hold[g] = NONE /\ result[g] = NONE /\ Parent \in Accounts
      /\ EnvelopeBytes \in Nat /\ EnvelopeBytes # NONE /\ "Working" \in Category
  BY EnvelopeTyped, GrantsAssumption DEF IInv, Reserve, Accounts, Category
<1>2. /\ ledger' = [ledger EXCEPT ![Parent] = Charged(ledger[Parent], "Working", EnvelopeBytes)]
      /\ hold' = [hold EXCEPT ![g] = EnvelopeBytes]
      /\ UNCHANGED <<live, slot, output, result, foreign>>
  BY DEF Reserve
<1>3. hold'[g] = EnvelopeBytes /\ \A h \in Grants \ {g} : hold'[h] = hold[h]
  BY <1>1, <1>2 DEF TypeOK
<1>4. /\ Held(g) = 0 /\ Held(g)' = EnvelopeBytes
      /\ \A h \in Grants \ {g} : Held(h)' = Held(h)
      /\ \A h \in Grants : OnParent(h)' = OnParent(h)
  BY <1>1, <1>2, <1>3 DEF Held, OnParent, Bytes
<1>5. HeldSum \in Nat /\ ParentSum \in Nat
  BY <1>1, SumsTyped
<1>6. ParentSum' = ParentSum + 0
  <2>1. ParentBytes' = ParentBytes
    BY <1>4 DEF ParentBytes
  <2> QED
    BY <1>5, <2>1 DEF ParentSum
<1>7. HeldSum' = HeldSum + EnvelopeBytes
  <2>1. HeldSum' = HeldSum - Held(g) + Held(g)'
    BY <1>1, <1>4, HeldMoves
  <2> QED
    BY <1>1, <1>4, <1>5, <2>1
<1>8. ledger'[Parent].cur = [c \in Category |->
        ledger[Parent].cur[c] + CASE c = "Working" -> EnvelopeBytes
                                  [] c = "PendingIo" -> 0
                                  [] OTHER -> 0]
  <2>1. ledger[Parent] \in Ledger /\ \A c \in Category : ledger[Parent].cur[c] \in Nat
    BY <1>1 DEF TypeOK, Ledger
  <2>2. Charged(ledger[Parent], "Working", EnvelopeBytes).cur = [d \in Category |->
          IF d = "Working" THEN ledger[Parent].cur[d] + EnvelopeBytes ELSE ledger[Parent].cur[d]]
    BY <1>1, <2>1, ChargedTo
  <2>3. ledger'[Parent] = Charged(ledger[Parent], "Working", EnvelopeBytes)
    BY <1>1, <1>2 DEF TypeOK
  <2> QED
    BY <2>1, <2>2, <2>3
<1> QED
  BY <1>1, <1>2, <1>6, <1>7, <1>8, ParentMoved

\* What one release, or a buffer's and one, leave of the request's categories.
LEMMA ParentReleases ==
  ASSUME TypeOK, NEW l \in Ledger, NEW q \in Nat, NEW w \in Nat,
         l.cur = [c \in Category |->
                    IF c = "PendingIo" THEN ledger[Parent].cur[c] - q ELSE ledger[Parent].cur[c]],
         w <= ledger[Parent].cur["Working"]
  PROVE  Released(l, "Working", w).cur = [c \in Category |->
           ledger[Parent].cur[c] + CASE c = "Working" -> -w
                                     [] c = "PendingIo" -> -q
                                     [] OTHER -> 0]
<1>1. \A c \in Category : ledger[Parent].cur[c] \in Nat
  <2>1. ledger[Parent] \in Ledger
    BY DEF TypeOK, Accounts
  <2> QED
    BY <2>1 DEF Ledger
<1>2. "Working" \in Category /\ w <= l.cur["Working"]
  BY DEF Category
<1>3. Released(l, "Working", w).cur =
        [d \in Category |-> IF d = "Working" THEN l.cur[d] - w ELSE l.cur[d]]
  BY <1>2, ReleasedFrom
<1> QED
  BY <1>1, <1>3

\* What g's result still has charged to the request.
Owed(g) == IF result[g].died THEN 0 ELSE result[g].bytes

LEMMA WithoutBufferFrom ==
  ASSUME IInv, ParentInv, ~foreign[Parent], NEW g \in Grants, result[g] # NONE
  PROVE  /\ Owed(g) \in Nat /\ OnParent(g) >= Owed(g)
         /\ WithoutBuffer(ledger[Parent], g) \in Ledger
         /\ WithoutBuffer(ledger[Parent], g).cur = [c \in Category |->
              IF c = "PendingIo" THEN ledger[Parent].cur[c] - Owed(g) ELSE ledger[Parent].cur[c]]
<1>1. /\ TypeOK /\ ledger[Parent] \in Ledger /\ result[g].bytes \in Nat
      /\ live[Parent]["PendingIo"] \in Nat /\ "PendingIo" \in Category
      /\ output[g] \in Nat \cup {NONE}
  BY DEF IInv, TypeOK, Buffer, Accounts, Category
<1>2. \A c \in Category : ledger[Parent].cur[c] \in Nat
  BY <1>1 DEF Ledger
<1>3. Owed(g) \in Nat
  BY <1>1 DEF Owed
<1>4. OnParent(g) >= Owed(g)
  <2>1. OnParent(g) = (IF slot[g] = Parent THEN Bytes(output[g]) ELSE 0) + Owed(g)
    BY DEF OnParent, Owed
  <2>2. (IF slot[g] = Parent THEN Bytes(output[g]) ELSE 0) \in Nat
    BY <1>1 DEF Bytes
  <2> QED
    BY <1>3, <2>1, <2>2
<1>5. Owed(g) <= ledger[Parent].cur["PendingIo"]
  <2>1. OnParent(g) <= ParentSum /\ ParentSum \in Nat /\ OnParent(g) \in Nat
    BY <1>1, SumsTyped
  <2> QED
    BY <1>1, <1>3, <1>4, <2>1 DEF ParentInv
<1>6. WithoutBuffer(ledger[Parent], g).cur = [c \in Category |->
        IF c = "PendingIo" THEN ledger[Parent].cur[c] - Owed(g) ELSE ledger[Parent].cur[c]]
  <2>1. CASE result[g].died
    <3>1. ledger[Parent].cur = [c \in Category |-> ledger[Parent].cur[c]]
      BY <1>1 DEF Ledger
    <3>2. WithoutBuffer(ledger[Parent], g) = ledger[Parent] /\ Owed(g) = 0
      BY <2>1 DEF WithoutBuffer, Owed
    <3> QED
      BY <1>2, <3>1, <3>2
  <2>2. CASE ~result[g].died
    <3>1. /\ WithoutBuffer(ledger[Parent], g) = Released(ledger[Parent], "PendingIo", Owed(g))
      BY <2>2 DEF WithoutBuffer, Owed
    <3>2. Released(ledger[Parent], "PendingIo", Owed(g)).cur = [d \in Category |->
            IF d = "PendingIo" THEN ledger[Parent].cur[d] - Owed(g) ELSE ledger[Parent].cur[d]]
      BY <1>1, <1>3, <1>5, ReleasedFrom
    <3> QED
      BY <3>1, <3>2
  <2> QED
    BY <2>1, <2>2
<1>7. WithoutBuffer(ledger[Parent], g) \in Ledger
  BY WithoutBufferBooks
<1> QED
  BY <1>3, <1>4, <1>6, <1>7

\* The hold of an envelope is within the request's working bytes.
LEMMA HeldWithin ==
  ASSUME IInv, ParentInv, ~foreign[Parent], NEW g \in Grants
  PROVE  Held(g) \in Nat /\ Held(g) <= ledger[Parent].cur["Working"]
<1>1. TypeOK /\ live[Parent]["Working"] \in Nat
  BY DEF IInv, TypeOK, Accounts, Category
<1>2. Held(g) \in Nat /\ Held(g) <= HeldSum /\ HeldSum \in Nat
  BY <1>1, SumsTyped
<1> QED
  BY <1>1, <1>2 DEF ParentInv

\* A coordinator's step that releases `w` working and `q` pending bytes.
LEMMA ReleaseParent ==
  ASSUME IInv, IInv', ParentInv, ~foreign[Parent], NEW g \in Grants, NEW h \in Grants,
         NEW q \in Nat, NEW w \in Nat, NEW l \in Ledger,
         l.cur = [c \in Category |->
                    IF c = "PendingIo" THEN ledger[Parent].cur[c] - q ELSE ledger[Parent].cur[c]],
         ledger' = [ledger EXCEPT ![Parent] = Released(l, "Working", w)],
         UNCHANGED <<live, foreign>>,
         w <= Held(g),
         \A k \in Grants \ {g} : Held(k)' = Held(k),
         Held(g)' = Held(g) - w,
         \A k \in Grants \ {h} : OnParent(k)' = OnParent(k),
         OnParent(h)' = OnParent(h) - q
  PROVE  ParentInv'
<1>1. TypeOK /\ TypeOK' /\ Parent \in Accounts
  BY DEF IInv, Accounts
<1>2. HeldSum \in Nat /\ ParentSum \in Nat /\ Held(g) \in Nat /\ OnParent(h) \in Nat
  BY <1>1, SumsTyped
<1>3. HeldSum' = HeldSum - Held(g) + Held(g)'
  BY <1>1, HeldMoves
<1>4. ParentSum' = ParentSum - OnParent(h) + OnParent(h)'
  BY <1>1, ChargeMoves
<1>5. HeldSum' = HeldSum + (-w) /\ ParentSum' = ParentSum + (-q)
  BY <1>2, <1>3, <1>4
<1>6. w <= ledger[Parent].cur["Working"]
  <2>1. Held(g) <= ledger[Parent].cur["Working"]
    BY HeldWithin
  <2>2. ledger[Parent].cur["Working"] \in Nat
    BY <1>1 DEF TypeOK, Ledger, Category
  <2> QED
    BY <1>2, <2>1, <2>2
<1>7. Released(l, "Working", w).cur = [c \in Category |->
        ledger[Parent].cur[c] + CASE c = "Working" -> -w
                                  [] c = "PendingIo" -> -q
                                  [] OTHER -> 0]
  BY <1>1, <1>6, ParentReleases
<1>8. ledger'[Parent] = Released(l, "Working", w)
  BY <1>1 DEF TypeOK
<1>9. -w \in Int /\ -q \in Int
  OBVIOUS
<1>10. ledger'[Parent].cur = [c \in Category |->
         ledger[Parent].cur[c] + CASE c = "Working" -> -w
                                   [] c = "PendingIo" -> -q
                                   [] OTHER -> 0]
  BY <1>7, <1>8
<1> QED
  BY <1>1, <1>5, <1>9, <1>10, ParentMoved

\* The request's categories as they are: nothing of a buffer is given back.
LEMMA NothingOwed ==
  ASSUME IInv
  PROVE  /\ ledger[Parent] \in Ledger
         /\ ledger[Parent].cur = [c \in Category |->
              IF c = "PendingIo" THEN ledger[Parent].cur[c] - 0 ELSE ledger[Parent].cur[c]]
<1>1. ledger[Parent] \in Ledger
  BY ParentBooks
<1>2. ledger[Parent].cur \in [Category -> Nat]
  BY <1>1 DEF Ledger
<1>3. \A c \in Category : ledger[Parent].cur[c] \in Nat
  BY <1>2
<1> QED
  BY <1>1, <1>2, <1>3

LEMMA DropHoldParent ==
  ASSUME IInv, IInv', ParentInv, ~foreign[Parent], NEW g \in Grants, DropHold(g)
  PROVE  ParentInv'
<1>1. /\ TypeOK /\ hold[g] \in Nat /\ hold[g] # NONE /\ result[g] = NONE
  BY DEF IInv, DropHold, TypeOK
<1>2. /\ ledger' = [ledger EXCEPT ![Parent] = Released(ledger[Parent], "Working", hold[g])]
      /\ hold' = [hold EXCEPT ![g] = NONE]
      /\ UNCHANGED <<live, slot, output, result, foreign>>
  BY DEF DropHold
<1>3. hold'[g] = NONE /\ \A k \in Grants \ {g} : hold'[k] = hold[k]
  BY <1>1, <1>2 DEF TypeOK
<1>4. /\ Held(g) = hold[g] /\ Held(g)' = 0
      /\ \A k \in Grants \ {g} : Held(k)' = Held(k)
      /\ \A k \in Grants : OnParent(k)' = OnParent(k)
  BY <1>1, <1>2, <1>3 DEF Held, OnParent, Bytes
<1>5. OnParent(g) \in Nat
  BY <1>1, SumsTyped
<1>6. /\ Held(g)' = Held(g) - hold[g] /\ hold[g] <= Held(g)
      /\ OnParent(g)' = OnParent(g) - 0
  BY <1>1, <1>4, <1>5
<1>7. /\ \A k \in Grants \ {g} : Held(k)' = Held(k)
      /\ \A k \in Grants \ {g} : OnParent(k)' = OnParent(k)
      /\ UNCHANGED <<live, foreign>>
  BY <1>2, <1>4
<1>8. PICK w \in Nat : w = hold[g]
  BY <1>1
<1> QED
  BY <1>2, <1>6, <1>7, <1>8, NothingOwed, ReleaseParent

LEMMA AdoptParent ==
  ASSUME IInv, IInv', ParentInv, ~foreign[Parent], NEW g \in Grants, Adopt(g)
  PROVE  ParentInv'
<1> DEFINE kept == Lower(result[g].bytes, hold[g])
           r == [bytes |-> result[g].bytes, died |-> result[g].died, kept |-> kept]
<1>1. /\ TypeOK /\ hold[g] \in Nat /\ hold[g] # NONE /\ result[g] # NONE
      /\ result[g] \in Buffer /\ result[g].kept = NONE
  BY DEF IInv, Adopt, TypeOK
<1>2. /\ ledger' = [ledger EXCEPT ![Parent] = Released(ledger[Parent], "Working", hold[g] - kept)]
      /\ result' = [result EXCEPT ![g] = r]
      /\ hold' = [hold EXCEPT ![g] = NONE]
      /\ UNCHANGED <<live, slot, output, foreign>>
  BY DEF Adopt
<1>3. kept \in Nat /\ kept <= hold[g] /\ r \in Buffer /\ kept # NONE
  BY <1>1, GrantsAssumption DEF Buffer, Lower
<1>4. r # NONE /\ r.kept = kept /\ r.bytes = result[g].bytes /\ r.died = result[g].died
  BY <1>3, GrantsAssumption
<1> HIDE DEF kept, r
<1>5. /\ hold'[g] = NONE /\ result'[g] = r
      /\ \A k \in Grants \ {g} : hold'[k] = hold[k] /\ result'[k] = result[k]
  BY <1>1, <1>2 DEF TypeOK
<1>6. Held(g) = hold[g] /\ Held(g)' = kept
  BY <1>1, <1>3, <1>4, <1>5 DEF Held, Bytes
<1>7. \A k \in Grants \ {g} : Held(k)' = Held(k)
  BY <1>5 DEF Held
<1>8. \A k \in Grants : OnParent(k)' = OnParent(k)
  BY <1>1, <1>2, <1>4, <1>5 DEF OnParent
<1>9. OnParent(g) \in Nat
  BY <1>1, SumsTyped
<1>10. /\ Held(g)' = Held(g) - (hold[g] - kept) /\ hold[g] - kept <= Held(g)
       /\ hold[g] - kept \in Nat /\ OnParent(g)' = OnParent(g) - 0
  BY <1>1, <1>3, <1>6, <1>8, <1>9
<1> QED
  BY <1>1, <1>2, <1>7, <1>8, <1>10, NothingOwed, ReleaseParent

LEMMA AdoptCrossedParent ==
  ASSUME IInv, IInv', ParentInv, ~foreign[Parent], NEW g \in Grants, NEW h \in Grants,
         AdoptCrossed(g, h)
  PROVE  ParentInv'
<1>1. /\ TypeOK /\ hold[g] \in Nat /\ hold[g] # NONE /\ result[g] = NONE /\ g # h
      /\ result[h] # NONE /\ result[h].kept = NONE /\ result[h].bytes \in Nat
  BY DEF IInv, AdoptCrossed, TypeOK, Buffer
<1>2. /\ ledger' = [ledger EXCEPT ![Parent] =
                      Released(WithoutBuffer(ledger[Parent], h), "Working", hold[g])]
      /\ hold' = [hold EXCEPT ![g] = NONE]
      /\ result' = [result EXCEPT ![h] = NONE]
      /\ UNCHANGED <<live, slot, output, foreign>>
  BY DEF AdoptCrossed
<1>3. /\ hold'[g] = NONE /\ \A k \in Grants \ {g} : hold'[k] = hold[k]
      /\ result'[h] = NONE /\ \A k \in Grants \ {h} : result'[k] = result[k]
  BY <1>1, <1>2 DEF TypeOK
<1>4. Held(g) = hold[g] /\ Held(g)' = 0
  BY <1>1, <1>3 DEF Held, Bytes
<1>5. Held(h)' = Held(h)
  <2>1. hold'[h] = hold[h]
    BY <1>1, <1>3
  <2> QED
    BY <1>1, <1>3, <2>1 DEF Held, Bytes
<1>6. \A k \in Grants \ {g, h} : Held(k)' = Held(k)
  BY <1>3 DEF Held
<1>7. \A k \in Grants \ {h} : OnParent(k)' = OnParent(k)
  BY <1>2, <1>3 DEF OnParent
<1>8. OnParent(h)' = OnParent(h) - Owed(h)
  <2> DEFINE rest == IF slot[h] = Parent THEN Bytes(output[h]) ELSE 0
  <2>1. rest \in Nat
    BY <1>1 DEF TypeOK, Bytes
  <2>2. OnParent(h) = rest + Owed(h)
    BY <1>1 DEF OnParent, Owed
  <2>3. OnParent(h)' = rest + 0
    BY <1>2, <1>3 DEF OnParent
  <2>4. Owed(h) \in Nat
    BY <1>1, WithoutBufferFrom
  <2> HIDE DEF rest
  <2> QED
    BY <2>1, <2>2, <2>3, <2>4
<1>9. Held(g)' = Held(g) - hold[g] /\ hold[g] <= Held(g)
  BY <1>1, <1>4
<1>10. \A k \in Grants \ {g} : Held(k)' = Held(k)
  BY <1>5, <1>6
<1> QED
  BY <1>1, <1>2, <1>7, <1>8, <1>9, <1>10, WithoutBufferFrom, ReleaseParent

LEMMA DropResultParent ==
  ASSUME IInv, IInv', ParentInv, ~foreign[Parent], NEW g \in Grants, DropResult(g)
  PROVE  ParentInv'
<1> DEFINE kept == IF result[g].kept = NONE THEN 0 ELSE result[g].kept
<1>1. /\ TypeOK /\ result[g] # NONE /\ result[g].kept \in Nat \cup {NONE}
      /\ hold[g] \in Nat \cup {NONE}
  BY DEF IInv, DropResult, TypeOK, Buffer
<1>2. /\ ledger' = [ledger EXCEPT ![Parent] =
                      Released(WithoutBuffer(ledger[Parent], g), "Working", kept)]
      /\ result' = [result EXCEPT ![g] = NONE]
      /\ UNCHANGED <<live, slot, output, hold, foreign>>
  BY DEF DropResult
<1>3. kept \in Nat /\ kept = Bytes(result[g].kept)
  BY <1>1 DEF Bytes
<1> HIDE DEF kept
<1>4. result'[g] = NONE /\ \A k \in Grants \ {g} : result'[k] = result[k]
  BY <1>1, <1>2 DEF TypeOK
<1>5. Held(g)' = Held(g) - kept /\ kept <= Held(g)
  <2> DEFINE b == Bytes(hold[g])
  <2>1. b \in Nat
    BY <1>1 DEF Bytes
  <2>2. Held(g) = b + kept
    BY <1>1, <1>3 DEF Held
  <2>3. Held(g)' = b + 0
    BY <1>2, <1>4 DEF Held
  <2> HIDE DEF b
  <2> QED
    BY <1>3, <2>1, <2>2, <2>3
<1>6. \A k \in Grants \ {g} : Held(k)' = Held(k)
  BY <1>2, <1>4 DEF Held
<1>7. \A k \in Grants \ {g} : OnParent(k)' = OnParent(k)
  BY <1>2, <1>4 DEF OnParent
<1>8. OnParent(g)' = OnParent(g) - Owed(g)
  <2> DEFINE rest == IF slot[g] = Parent THEN Bytes(output[g]) ELSE 0
  <2>1. rest \in Nat
    BY <1>1 DEF TypeOK, Bytes
  <2>2. OnParent(g) = rest + Owed(g)
    BY <1>1 DEF OnParent, Owed
  <2>3. OnParent(g)' = rest + 0
    BY <1>2, <1>4 DEF OnParent
  <2>4. Owed(g) \in Nat
    BY <1>1, WithoutBufferFrom
  <2> HIDE DEF rest
  <2> QED
    BY <2>1, <2>2, <2>3, <2>4
<1> QED
  BY <1>1, <1>2, <1>3, <1>5, <1>6, <1>7, <1>8, WithoutBufferFrom, ReleaseParent

-----------------------------------------------------------------------------
(* The request's ledger throughout.                                        *)

LEMMA InitParent == Init => ParentInv
<1> SUFFICES ASSUME Init PROVE ParentInv
  OBVIOUS
<1>1. TypeOK
  BY InitHolds DEF IInv
<1>2. \A g \in Grants : Held(g) = 0 /\ OnParent(g) = 0
  BY DEF Init, Held, OnParent, Bytes
<1>3. HeldBytes \in [Grants -> Int] /\ ParentBytes \in [Grants -> Int]
  BY <1>1, BytesTyped
<1>4. HeldSum = 0
  BY <1>2, <1>3, SumOfZeros, GrantsAssumption DEF HeldSum, HeldBytes
<1>5. ParentSum = 0
  BY <1>2, <1>3, SumOfZeros, GrantsAssumption DEF ParentSum, ParentBytes
<1> QED
  BY <1>4, <1>5, GrantsAssumption DEF Init, ParentInv, Opened, Nothing, Accounts, Category

LEMMA ParentStep == IInv /\ IInv' /\ ParentInv /\ [Next]_vars => ParentInv'
<1> SUFFICES ASSUME IInv, IInv', ParentInv, [Next]_vars PROVE ParentInv'
  OBVIOUS
<1>1. CASE Allocator
  BY <1>1, AllocatorParent
<1>2. ASSUME NEW g \in Grants, Reserve(g) \/ OpenChild(g) \/ Detach(g) \/ Abandon(g)
      PROVE  ParentInv'
  BY <1>2, ReserveParent, OpenChildParent, DetachParent, AbandonParent
<1>3. ASSUME NEW g \in Grants, NEW n \in Sizes \cup {0}, MakeOutput(g, n)
      PROVE  ParentInv'
  <2>1. n \in Nat
    BY GrantsAssumption
  <2> QED
    BY <1>3, <2>1, MakeOutputParent
<1>4. ASSUME NEW g \in Grants,
             \/ DropHold(g) \/ Adopt(g) \/ DropResult(g) \/ \E h \in Grants : AdoptCrossed(g, h)
      PROVE  ParentInv'
  <2>1. foreign' = foreign
    BY <1>4 DEF DropHold, Adopt, DropResult, AdoptCrossed
  <2>2. CASE foreign[Parent]
    BY <2>1, <2>2 DEF ParentInv
  <2>3. CASE ~foreign[Parent]
    BY <1>4, <2>3, DropHoldParent, AdoptParent, DropResultParent, AdoptCrossedParent
  <2> QED
    BY <2>2, <2>3
<1>5. CASE UNCHANGED vars
  <2>1. \A h \in Grants : Held(h)' = Held(h) /\ OnParent(h)' = OnParent(h)
    BY <1>5 DEF vars, Held, OnParent
  <2>2. /\ ledger'[Parent] = ledger[Parent] /\ live'[Parent] = live[Parent]
        /\ foreign'[Parent] = foreign[Parent]
    BY <1>5 DEF vars
  <2> QED
    BY <2>1, <2>2, ParentAside
<1> QED
  BY <1>1, <1>2, <1>3, <1>4, <1>5 DEF Next

LEMMA ParentInvariance == Spec => []ParentInv
BY InitParent, ParentStep, Invariance, PTL DEF Spec

\* Each category of the request's ledger is exactly what its own thread holds and
\* what the envelopes and results of any number of workers stand for, on every path
\* an envelope may end on.
THEOREM ParentIsExact == Spec => []ParentExact
<1>1. ASSUME IInv, ParentInv, ~foreign[Parent]
      PROVE  ledger[Parent].cur =
               [c \in Category |->
                  live[Parent][c] +
                  CASE c = "Retained" -> LedgerBytes
                    [] c = "Working" -> HeldSum
                    [] c = "Diagnostic" -> 0
                    [] c = "PendingIo" -> ParentSum]
  <2> DEFINE E == [c \in Category |->
                     live[Parent][c] +
                     CASE c = "Retained" -> LedgerBytes
                       [] c = "Working" -> HeldSum
                       [] c = "Diagnostic" -> 0
                       [] c = "PendingIo" -> ParentSum]
  <2>1. /\ ledger[Parent].cur \in [Category -> Nat]
        /\ live[Parent]["Diagnostic"] \in Nat
    BY <1>1 DEF IInv, TypeOK, Ledger, Accounts, Category
  <2>2. /\ E["Retained"] = live[Parent]["Retained"] + LedgerBytes
        /\ E["Working"] = live[Parent]["Working"] + HeldSum
        /\ E["Diagnostic"] = live[Parent]["Diagnostic"] + 0
        /\ E["PendingIo"] = live[Parent]["PendingIo"] + ParentSum
    BY DEF Category
  <2>3. ASSUME NEW c \in Category PROVE ledger[Parent].cur[c] = E[c]
    <3>1. c \in {"Retained", "Working", "Diagnostic", "PendingIo"}
      BY DEF Category
    <3> HIDE DEF E
    <3> QED
      BY <1>1, <2>1, <2>2, <3>1 DEF ParentInv
  <2>4. \A c \in Category : ledger[Parent].cur[c] =
          live[Parent][c] +
            CASE c = "Retained" -> LedgerBytes
              [] c = "Working" -> HeldSum
              [] c = "Diagnostic" -> 0
              [] c = "PendingIo" -> ParentSum
    BY <2>3
  <2> HIDE DEF E
  <2> QED
    BY <2>1, <2>4
<1>2. IInv /\ ParentInv => ParentExact
  BY <1>1 DEF ParentExact, HeldSum, ParentSum
<1> QED
  BY <1>2, Invariance, ParentInvariance, PTL

\* What a worker and its result hold is within what their envelope stands for on
\* the request's ledger.
LEMMA StorageCovered ==
  ASSUME IInv, \A a \in Accounts : ~foreign[a], NEW g \in Grants
  PROVE  GrantStorage[g] \in Nat /\ GrantStorage[g] <= Held(g) + OnParent(g)
<1>1. /\ TypeOK /\ Shut(g) /\ ChildExact(g) /\ EnvelopeHeld(g) /\ g \in Accounts /\ g # Parent
      /\ Sound(ledger[g], LimitsOf(g)) /\ ~foreign[g]
  BY GrantsAssumption DEF IInv, Books, Accounts
<1>2. /\ hold[g] \in Nat \cup {NONE} /\ output[g] \in Nat \cup {NONE}
      /\ slot[g] \in {g, Parent} /\ LedgerBytes \in Nat
      /\ live[g] \in [Category -> Nat] /\ ledger[g] \in Ledger
      /\ result[g] # NONE => result[g].bytes \in Nat /\ result[g].kept \in Nat \cup {NONE}
  BY <1>1, GrantsAssumption DEF TypeOK, Buffer
<1>3. /\ live[g]["Retained"] \in Nat /\ live[g]["Working"] \in Nat
      /\ live[g]["Diagnostic"] \in Nat /\ live[g]["PendingIo"] \in Nat
  BY <1>2 DEF Category
<1>4. GrantStorage[g] = (IF worker[g] = "open" THEN Storage(g) ELSE 0) + Made(g)
  BY DEF GrantStorage
<1>5. Bytes(output[g]) \in Nat /\ EnvelopeBytes \in Nat /\ EnvelopeBytes # NONE
  BY <1>2, EnvelopeTyped, GrantsAssumption DEF Bytes
<1>6. CASE worker[g] = "open"
  <2>1. hold[g] = EnvelopeBytes /\ result[g] = NONE
    BY <1>1, <1>6 DEF EnvelopeHeld
  <2>2. ledger[g].total <= EnvelopeBytes
    BY <1>1 DEF Sound, LimitsOf
  <2>3. OnChild(g) \in Nat
    BY <1>5 DEF OnChild
  <2>4. ledger[g].total = Storage(g) + OnChild(g) /\ Storage(g) \in Nat
    BY <1>1, <1>2, <1>3, <2>3 DEF ChildExact, Sound, Storage
  <2>5. Made(g) = Bytes(output[g])
    BY <1>5, <2>1 DEF Made
  <2>6. Held(g) = EnvelopeBytes
    BY <1>5, <2>1 DEF Held, Bytes
  <2>7. OnParent(g) + OnChild(g) = Bytes(output[g]) /\ OnParent(g) \in Nat
    BY <1>1, <1>2, <1>5, <2>1 DEF OnParent, OnChild
  <2> QED
    BY <1>4, <1>5, <1>6, <2>2, <2>3, <2>4, <2>5, <2>6, <2>7
<1>7. CASE worker[g] # "open"
  <2>1. output[g] = NONE
    BY <1>1, <1>7 DEF Shut
  <2>2. GrantStorage[g] = IF result[g] = NONE THEN 0 ELSE result[g].bytes
    BY <1>2, <1>4, <1>7, <2>1 DEF Made, Bytes
  <2>3. Held(g) \in Nat /\ OnParent(g) \in Nat
    BY <1>1, SumsTyped
  <2>4. CASE result[g] = NONE
    BY <2>2, <2>3, <2>4
  <2>5. CASE result[g] # NONE
    <3>1. Held(g) >= result[g].bytes
      <4>1. CASE result[g].kept = NONE
        <5>1. hold[g] = EnvelopeBytes /\ result[g].bytes <= Envelope.output
          BY <1>1, <2>5, <4>1 DEF EnvelopeHeld
        <5>2. Held(g) = EnvelopeBytes + 0
          BY <1>5, <2>5, <4>1, <5>1 DEF Held, Bytes
        <5> QED
          BY <1>2, <2>5, <5>1, <5>2, EnvelopeTyped
      <4>2. CASE result[g].kept # NONE
        <5>1. result[g].bytes <= result[g].kept
          BY <1>1, <2>5, <4>2 DEF EnvelopeHeld
        <5>2. Held(g) = Bytes(hold[g]) + result[g].kept /\ Bytes(hold[g]) \in Nat
          BY <1>2, <2>5, <4>2 DEF Held, Bytes
        <5> QED
          BY <1>2, <2>5, <4>2, <5>1, <5>2
      <4> QED
        BY <4>1, <4>2
    <3> QED
      BY <1>2, <2>2, <2>3, <2>5, <3>1
  <2> QED
    BY <2>4, <2>5
<1> QED
  BY <1>6, <1>7

\* The request and any number of workers together never hold more memory than the
\* one ceiling, though each charges a ledger the others cannot see.
THEOREM CeilingBindsEveryone == Spec => []CeilingBindsAll
<1>1. ASSUME IInv, ParentInv, \A a \in Accounts : ~foreign[a]
      PROVE  Storage(Parent) + SumFunctionOnSet(GrantStorage, Grants) <= MemoryLimit
  <2>1. TypeOK /\ Parent \in Accounts /\ ~foreign[Parent] /\ IsFiniteSet(Grants)
    BY <1>1, GrantsAssumption DEF IInv, Accounts
  <2>2. GrantStorage \in [Grants -> Nat]
    <3>1. \A g \in Grants : GrantStorage[g] \in Nat
      BY <1>1, StorageCovered
    <3> QED
      BY <3>1 DEF GrantStorage
  <2>3. HeldBytes \in [Grants -> Int] /\ ParentBytes \in [Grants -> Int]
    BY <2>1, BytesTyped
  <2>4. \A g \in Grants : GrantStorage[g] <= HeldBytes[g] + ParentBytes[g]
    BY <1>1, StorageCovered DEF HeldBytes, ParentBytes
  <2>5. SumFunctionOnSet(GrantStorage, Grants) <= HeldSum + ParentSum
    <3>1. GrantStorage \in [Grants -> Int]
      BY <2>2
    <3> QED
      BY <2>1, <2>3, <2>4, <3>1, SumOfTwo DEF HeldSum, ParentSum
  <2>6. SumFunctionOnSet(GrantStorage, Grants) \in Nat
    BY <2>1, <2>2, SumOfNaturals
  <2>7. HeldSum \in Nat /\ ParentSum \in Nat
    BY <2>1, SumsTyped
  <2>8. /\ live[Parent]["Retained"] \in Nat /\ live[Parent]["Working"] \in Nat
        /\ live[Parent]["Diagnostic"] \in Nat /\ live[Parent]["PendingIo"] \in Nat
        /\ LedgerBytes \in Nat /\ MemoryLimit \in Nat
    BY <2>1, GrantsAssumption DEF TypeOK, Category
  <2>9. ledger[Parent].total <= MemoryLimit
    BY ParentBooks, <1>1 DEF Sound, LimitsOf, RequestLimits
  <2>10. ledger[Parent].total = Storage(Parent) + HeldSum + ParentSum
    BY <1>1, <2>1, <2>7, <2>8, ParentBooks DEF Sound, ParentInv, Storage
  <2>11. Storage(Parent) \in Nat
    BY <2>8 DEF Storage
  <2> QED
    BY <2>5, <2>6, <2>7, <2>8, <2>9, <2>10, <2>11
<1>2. IInv /\ ParentInv => CeilingBindsAll
  BY <1>1 DEF CeilingBindsAll
<1> QED
  BY <1>2, Invariance, ParentInvariance, PTL

=============================================================================
