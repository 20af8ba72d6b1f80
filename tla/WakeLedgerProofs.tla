-------------------------- MODULE WakeLedgerProofs --------------------------
(* Machine-checked proofs about WakeLedger, for every value of its         *)
(* constants: its types and limits, then that packets are not repeated,    *)
(* and from HoldInv on, under HandlersFinish (no handler or status job     *)
(* outlives its reservation), that an operation has one handler, receipts  *)
(* tell the truth, their lifetimes are nested, and the ledger implements   *)
(* WakeContract.                                                           *)
EXTENDS WakeLedgerRefinement, FiniteSetTheorems, TLAPS

-----------------------------------------------------------------------------
(* Type correctness of the ledger operations *)

EntriesOK(f) ==
    /\ DOMAIN f \subseteq Keys
    /\ \A k \in DOMAIN f : f[k] \in LedgerEntry

\* The tickets named by the entries of f are among the first n drawn.
DrawnOK(f, n) ==
    \A k \in DOMAIN f : f[k].wake.attempt # 0 => f[k].wake.ticket \in 1..n
TicketsOK(f) ==
    /\ DOMAIN f \subseteq Ticket
    /\ \A x \in DOMAIN f : f[x] \in Keys

\* Put is insertion into a finite map.
LEMMA PutFacts ==
    ASSUME NEW f, NEW x, NEW v
    PROVE  /\ DOMAIN Put(f, x, v) = (DOMAIN f) \cup {x}
           /\ Put(f, x, v)[x] = v
           /\ \A y \in DOMAIN f : y # x => Put(f, x, v)[y] = f[y]
  BY DEF Put

\* Pruning keeps the maps well typed.
LEMMA PrunedOK ==
    ASSUME EntriesOK(entries), TicketsOK(tickets), NEW t
    PROVE  EntriesOK(PrunedEntries(t)) /\ TicketsOK(PrunedTickets(t))
  BY DEF EntriesOK, TicketsOK, PrunedEntries, PrunedTickets, Live, LiveTickets

LEMMA PrunedDrawn ==
    ASSUME NEW n, NEW t, DrawnOK(entries, n)
    PROVE  DrawnOK(PrunedEntries(t), n)
  BY DEF DrawnOK, PrunedEntries, Live

LEMMA PutDrawn ==
    ASSUME NEW f, NEW n, NEW k, NEW e, DrawnOK(f, n),
           e.wake.attempt # 0 => e.wake.ticket \in 1..n
    PROVE  DrawnOK(Put(f, k, e), n)
  BY DEF DrawnOK, Put

\* Insertion of a typed value keeps the maps well typed.
LEMMA PutEntryOK ==
    ASSUME NEW f, EntriesOK(f), NEW k \in Keys, NEW e \in LedgerEntry
    PROVE  EntriesOK(Put(f, k, e))
  BY DEF EntriesOK, Put

LEMMA PutTicketOK ==
    ASSUME NEW f, TicketsOK(f), NEW x \in Ticket, NEW k \in Keys
    PROVE  TicketsOK(Put(f, x, k))
  BY DEF TicketsOK, Put

\* The constant records are of their types.
LEMMA ConstantRecords ==
    /\ NoWake \in WakeMeta
    /\ NoResponse \in Response
    /\ ReadResponse \in Response
    /\ NoReceipt \in Receipt
    /\ Idle \in Work
    /\ Idle.pc = "idle"
    /\ NoOp \in Ops
  <1>1. NoOp \in Ops
    BY SetsAssumption DEF NoOp
  <1>2. NoWake \in WakeMeta /\ NoReceipt \in Receipt
    BY DEF NoWake, WakeMeta, NoReceipt, Receipt
  <1>3. NoResponse \in Response /\ ReadResponse \in Response
    BY DEF NoResponse, Response, ReadResponse
  <1>4. Idle \in Work /\ Idle.pc = "idle"
    BY <1>1 DEF Idle, Work
  <1> QED
    BY <1>1, <1>2, <1>3, <1>4

\* Every value the ledger stores is a ledger entry.
LEMMA EntryTypes ==
    ASSUME NEW t \in Int
    PROVE  /\ \A d \in Digest, w \in WakeMeta : ReservedEntry(d, w, t) \in LedgerEntry
           /\ \A e \in LedgerEntry : RetriedEntry(e, t) \in LedgerEntry
           /\ \A e \in LedgerEntry, r \in Response :
                 CompletedEntry(e, r, t) \in LedgerEntry
           /\ \A e \in LedgerEntry : Renewed(e, t) \in LedgerEntry
  <1> USE TimesAssumption, ConstantRecords
  <1>1. ASSUME NEW d \in Digest, NEW w \in WakeMeta
        PROVE  ReservedEntry(d, w, t) \in LedgerEntry
    BY DEF ReservedEntry, LedgerEntry
  <1>2. ASSUME NEW e \in LedgerEntry
        PROVE  RetriedEntry(e, t) \in LedgerEntry
    <2> DEFINE w == [e.wake EXCEPT !.ticket_used = TRUE, !.attempt = 2]
    <2>1. w \in WakeMeta
      <3>1. e.wake \in WakeMeta
        BY DEF LedgerEntry
      <3>2. 2 \in 0..2 /\ TRUE \in BOOLEAN
        OBVIOUS
      <3> QED
        BY <3>1, <3>2, Zenon DEF WakeMeta
    <2>2. RetriedEntry(e, t) = [e EXCEPT !.wake = w, !.pending = TRUE,
                      !.response = NoResponse, !.expires = t + PendingTTL]
      BY DEF RetriedEntry
    <2>3. t + PendingTTL \in Int
      OBVIOUS
    <2> HIDE DEF w
    <2> QED
      BY <2>1, <2>2, <2>3 DEF LedgerEntry
  <1>3. ASSUME NEW e \in LedgerEntry, NEW r \in Response
        PROVE  CompletedEntry(e, r, t) \in LedgerEntry
    <2> DEFINE w == IF e.wake.attempt = 1 /\ ~e.wake.ticket_used
                    THEN [e.wake EXCEPT !.ticket_expires = t + RetryTTL]
                    ELSE e.wake
    <2>1. w \in WakeMeta
      BY DEF LedgerEntry, WakeMeta
    <2>2. CompletedEntry(e, r, t) = [e EXCEPT !.wake = w, !.pending = FALSE,
                      !.response = r, !.expires = t + LedgerTTL]
      BY DEF CompletedEntry
    <2>3. t + LedgerTTL \in Int
      OBVIOUS
    <2> HIDE DEF w
    <2> QED
      BY <2>1, <2>2, <2>3 DEF LedgerEntry
  <1>4. ASSUME NEW e \in LedgerEntry
        PROVE  Renewed(e, t) \in LedgerEntry
    BY DEF Renewed, LedgerEntry, WakeMeta
  <1> QED
    BY <1>1, <1>2, <1>3, <1>4

-----------------------------------------------------------------------------
(* TypeOK is an invariant *)

\* The parts of TypeOK that the proof handles separately.
WorkOK(w) == w \in [Sessions -> Work]

LEMMA KeyTypes ==
    ASSUME TypeOK, NEW s \in Sessions
    PROVE  /\ KeyOf(s) \in Keys
           /\ WakeDigest(s) \in Digest
           /\ work[s] \in Work
           /\ work[s].at \in Nat /\ work[s].at \in Int
           /\ EntriesOK(entries) /\ TicketsOK(tickets)
           /\ DrawnOK(entries, issued)
  BY SetsAssumption
     DEF TypeOK, KeyOf, WakeDigest, Digest, Keys, Work, EntriesOK, TicketsOK,
         DrawnOK

\* The entry operations keep the ticket and never turn a read into a wake.
LEMMA EntryTickets ==
    ASSUME NEW e \in LedgerEntry, NEW t, NEW r
    PROVE  /\ CompletedEntry(e, r, t).wake.ticket = e.wake.ticket
           /\ CompletedEntry(e, r, t).wake.attempt = e.wake.attempt
           /\ Renewed(e, t).wake.ticket = e.wake.ticket
           /\ Renewed(e, t).wake.attempt = e.wake.attempt
           /\ RetriedEntry(e, t).wake.ticket = e.wake.ticket
  BY DEF CompletedEntry, Renewed, RetriedEntry, LedgerEntry, WakeMeta

\* Steps that leave the tables of other components alone: TypeOK follows from
\* the ledger, the sessions and the jobs.
LEMMA TypeFromParts ==
    ASSUME TypeOK,
           EntriesOK(entries'), TicketsOK(tickets'), DrawnOK(entries', issued'),
           WorkOK(work'), jobs' \subseteq Job, issued' \in 0..MaxTickets,
           receipt' \in [Keys -> Receipt],
           clock' = clock, cooling' = cooling, last_wake' = last_wake,
           reserved' = reserved, packets' = packets
    PROVE  TypeOK'
  BY DEF TypeOK, EntriesOK, TicketsOK, DrawnOK, WorkOK

\* Answering from the ledger prunes it and frees the session.
LEMMA AnswerType ==
    ASSUME TypeOK, NEW s \in Sessions, NEW t \in Int, AnswerAfterPrune(s, t)
    PROVE  TypeOK'
  <1>1. EntriesOK(entries') /\ TicketsOK(tickets')
    BY KeyTypes, PrunedOK DEF AnswerAfterPrune
  <1>2. DrawnOK(entries', issued')
    BY KeyTypes, PrunedDrawn DEF AnswerAfterPrune
  <1>3. WorkOK(work')
    BY ConstantRecords DEF TypeOK, AnswerAfterPrune, WorkOK
  <1> QED
    BY <1>1, <1>2, <1>3, TypeFromParts DEF TypeOK, AnswerAfterPrune, coolVars

LEMMA CompleteKeyType ==
    ASSUME TypeOK, NEW k, NEW r \in Response, CompleteKey(k, r)
    PROVE  EntriesOK(entries') /\ DrawnOK(entries', issued)
  <1>1. EntriesOK(entries) /\ DrawnOK(entries, issued) /\ clock \in Int
    BY DEF TypeOK, EntriesOK, DrawnOK
  <1>2. CASE k \in DOMAIN entries
    <2> DEFINE e == CompletedEntry(entries[k], r, clock)
    <2>1. entries[k] \in LedgerEntry
      BY <1>1, <1>2 DEF EntriesOK
    <2>2. e \in LedgerEntry
      BY <1>1, <2>1, EntryTypes
    <2>3. e.wake.attempt # 0 => e.wake.ticket \in 1..issued
      BY <1>1, <1>2, <2>1, EntryTickets DEF DrawnOK
    <2>4. entries' = [entries EXCEPT ![k] = e]
      BY <1>2 DEF CompleteKey
    <2> HIDE DEF e
    <2> QED
      BY <1>1, <2>2, <2>3, <2>4 DEF EntriesOK, DrawnOK
  <1>3. CASE k \notin DOMAIN entries
    BY <1>1, <1>3 DEF CompleteKey
  <1> QED
    BY <1>2, <1>3

\* Recording a target's result keeps the session's record well typed.
LEMMA ResultType ==
    ASSUME NEW w \in Work, NEW h \in w.todo, NEW sent \in BOOLEAN
    PROVE  /\ WithResult(w, h, sent) \in Work
           /\ WithResult(w, h, sent).todo = w.todo \ {h}
           /\ WithResult(w, h, sent).pc \in {w.pc, "complete"}
           /\ \A f \in {"op", "attempt", "ticket", "at", "hosts"} :
                 WithResult(w, h, sent)[f] = w[f]
  <1> DEFINE a == IF sent THEN w.accepted \cup {h} ELSE w.accepted
             c == IF w.todo = {h} THEN "complete" ELSE w.pc
  <1>1. a \in SUBSET Hosts /\ w.todo \ {h} \in SUBSET Hosts
    BY DEF Work
  <1>2. c \in {"idle", "begin", "reserve", "dispatch", "complete", "list", "drop"}
    BY DEF Work
  <1>3. c \in {w.pc, "complete"}
    OBVIOUS
  <1>4. WithResult(w, h, sent) =
           [w EXCEPT !.todo = w.todo \ {h}, !.accepted = a, !.pc = c]
    BY DEF WithResult
  <1> HIDE DEF a, c
  <1> QED
    BY <1>1, <1>2, <1>3, <1>4 DEF Work

LEMMA WakeStepType ==
    ASSUME TypeOK, NEW s \in Sessions, WakeStep(s)
    PROVE  TypeOK'
  <1> USE KeyTypes
  <1>0. /\ jobs \subseteq Job /\ issued \in 0..MaxTickets
        /\ receipt \in [Keys -> Receipt] /\ WorkOK(work) /\ clock \in Nat
    BY DEF TypeOK, WorkOK
  <1>1. CASE ReceiveWake(s)
    <2>1. PICK o \in WakeOps, hs \in (SUBSET Hosts) \ {{}},
               w \in {<<1, 0>>} \cup ({2} \X (1..issued)) :
             /\ w[1] = 1 => MayDraw
             /\ work' = [work EXCEPT ![s] =
                        [Idle EXCEPT !.pc = "begin", !.op = o, !.hosts = hs,
                                     !.attempt = w[1], !.ticket = w[2],
                                     !.at = clock]]
      BY <1>1 DEF ReceiveWake
    <2>2. w[1] \in 0..2 /\ w[2] \in Nat /\ o \in Ops
      BY <1>0, SetsAssumption
    <2>3. [Idle EXCEPT !.pc = "begin", !.op = o, !.hosts = hs,
                       !.attempt = w[1], !.ticket = w[2],
                       !.at = clock] \in Work
      BY <1>0, <2>2, ConstantRecords DEF Work
    <2>4. WorkOK(work')
      BY <1>0, <2>1, <2>3 DEF WorkOK
    <2> QED
      BY <1>0, <1>1, <2>4, TypeFromParts DEF ReceiveWake, ledgerVars, coolVars
  <1>2. CASE Begin1New(s)
    <2> DEFINE t == work[s].at
               x == issued + 1
               k == KeyOf(s)
               w == [attempt |-> 1, ticket |-> x, ticket_expires |-> t + RetryTTL,
                     ticket_used |-> FALSE]
               e == ReservedEntry(WakeDigest(s), w, t)
    <2>1. /\ x \in Ticket /\ x \in Nat /\ x \in 0..MaxTickets /\ issued' = x
          /\ x \in 1..x
      BY <1>0, <1>2, TimesAssumption DEF Begin1New, Ticket
    <2>2. w \in WakeMeta
      BY <2>1, TimesAssumption DEF WakeMeta
    <2>3. e \in LedgerEntry /\ e.wake.ticket \in 1..x
      <3>1. e \in LedgerEntry
        BY <2>1, <2>2, EntryTypes
      <3>2. e.wake.ticket = x
        BY DEF ReservedEntry
      <3> QED
        BY <2>1, <3>1, <3>2
    <2>4. entries' = Put(PrunedEntries(t), k, e)
      BY <1>2 DEF Begin1New
    <2>5. DrawnOK(entries, x)
      BY <1>0 DEF DrawnOK
    <2> HIDE DEF e, w
    <2>6. EntriesOK(entries')
      BY <2>3, <2>4, PutEntryOK, PrunedOK
    <2>7. DrawnOK(entries', issued')
      BY <2>1, <2>3, <2>4, <2>5, PrunedDrawn, PutDrawn
    <2>8. TicketsOK(tickets')
      BY <1>2, <2>1, PutTicketOK, PrunedOK DEF Begin1New
    <2>9. WorkOK(work')
      BY <1>0, <1>2, <2>1 DEF Begin1New, WorkOK, Work
    <2>10. receipt' \in [Keys -> Receipt]
      BY <1>0, <1>2, ConstantRecords DEF Begin1New
    <2> QED
      BY <1>0, <1>2, <2>1, <2>6, <2>7, <2>8, <2>9, <2>10, TypeFromParts
         DEF Begin1New, coolVars
  <1>3. CASE RecoverReceipt(s)
    <2> DEFINE t == work[s].at
               k == KeyOf(s)
               e == Renewed(entries[k], t)
    <2>1. k \in DOMAIN entries /\ entries[k] \in LedgerEntry
      BY <1>3 DEF RecoverReceipt, CanRecover, Live, EntriesOK
    <2>2. entries[k].wake.attempt # 0 => entries[k].wake.ticket \in 1..issued
      BY <2>1 DEF DrawnOK
    <2>3. entries[k].wake.attempt # 0
      BY <1>3 DEF RecoverReceipt, CanRecover, Renewable
    <2>4. e \in LedgerEntry /\ e.wake.ticket \in 1..issued
      BY <2>1, <2>2, <2>3, EntryTypes, EntryTickets
    <2>5. entries' = Put(PrunedEntries(t), k, e)
      BY <1>3 DEF RecoverReceipt
    <2> HIDE DEF e
    <2>6. EntriesOK(entries')
      BY <2>4, <2>5, PutEntryOK, PrunedOK
    <2>7. DrawnOK(entries', issued)
      BY <2>4, <2>5, PrunedDrawn, PutDrawn
    <2>8. TicketsOK(tickets')
      <3>1. entries[k].wake.ticket \in Ticket
        BY <1>0, <2>2, <2>3, TimesAssumption DEF Ticket
      <3> QED
        BY <1>3, <3>1, PutTicketOK, PrunedOK DEF RecoverReceipt
    <2>9. WorkOK(work')
      BY <1>0, <1>3, ConstantRecords DEF RecoverReceipt, WorkOK
    <2> QED
      BY <1>0, <1>3, <2>6, <2>7, <2>8, <2>9, TypeFromParts
         DEF RecoverReceipt, coolVars
  <1>4. CASE Begin2New(s)
    <2> DEFINE t == work[s].at
               k == KeyOf(s)
               e == RetriedEntry(entries[k], t)
    <2>1. k \in DOMAIN entries /\ entries[k] \in LedgerEntry
      BY <1>4 DEF Begin2New, CanRetry, Live, EntriesOK
    <2>2. entries[k].wake.ticket \in 1..issued
      BY <1>4, <2>1 DEF Begin2New, CanRetry, DrawnOK
    <2>3. e \in LedgerEntry /\ e.wake.ticket \in 1..issued
      BY <2>1, <2>2, EntryTypes, EntryTickets
    <2>4. entries' = Put(PrunedEntries(t), k, e)
      BY <1>4 DEF Begin2New
    <2> HIDE DEF e
    <2>5. EntriesOK(entries')
      BY <2>3, <2>4, PutEntryOK, PrunedOK
    <2>6. DrawnOK(entries', issued)
      BY <2>3, <2>4, PrunedDrawn, PutDrawn
    <2>7. TicketsOK(tickets')
      BY <1>4, PrunedOK DEF Begin2New
    <2>8. WorkOK(work')
      BY <1>0, <1>4 DEF Begin2New, WorkOK, Work
    <2>9. receipt' \in [Keys -> Receipt]
      BY <1>0, <1>4, ConstantRecords DEF Begin2New
    <2> QED
      BY <1>0, <1>4, <2>5, <2>6, <2>7, <2>8, <2>9, TypeFromParts
         DEF Begin2New, coolVars
  <1>5. CASE RefuseWake(s)
    BY <1>5, AnswerType DEF RefuseWake
  <1>6. CASE Reserve(s)
    <2>1. WorkOK(work')
      <3>1. [work[s] EXCEPT !.pc = "complete"] \in Work
        BY DEF Work
      <3>2. [work[s] EXCEPT !.pc = "dispatch", !.todo = work[s].hosts] \in Work
        BY DEF Work
      <3> QED
        BY <1>0, <1>6, <3>1, <3>2 DEF Reserve, WorkOK
    <2>2. cooling' \subseteq Clients \X Hosts
      <3>1. Targets(s) \subseteq Clients \X Hosts
        BY SetsAssumption DEF Targets, Work
      <3>2. \A t : CoolingAt(t) \subseteq Clients \X Hosts
        BY DEF TypeOK, CoolingAt
      <3> QED
        BY <1>6, <3>1, <3>2 DEF Reserve
    <2>3. /\ last_wake' \in [Clients \X Hosts -> Int]
          /\ reserved' \in [Clients \X Hosts -> Int]
      BY <1>0, <1>6 DEF Reserve, TypeOK
    <2> QED
      BY <1>6, <2>1, <2>2, <2>3 DEF Reserve, TypeOK, WorkOK, ledgerVars
  <1>7. CASE Dispatch(s)
    <2>0. PICK h \in work[s].todo, sent \in BOOLEAN :
            /\ packets' = IF sent
                          THEN [packets EXCEPT
                                  ![<<work[s].ticket, work[s].attempt, h>>] = @ + 1]
                          ELSE packets
            /\ work' = [work EXCEPT ![s] = WithResult(work[s], h, sent)]
      BY <1>7 DEF Dispatch
    <2>1. WorkOK(work')
      BY <1>0, <2>0, ResultType DEF WorkOK
    <2>2. packets' \in [Ticket \X (1..2) \X Hosts -> Nat]
      <3> DEFINE p == <<work[s].ticket, work[s].attempt, h>>
      <3>1. packets \in [Ticket \X (1..2) \X Hosts -> Nat]
        BY DEF TypeOK
      <3>2. packets' = packets \/ packets' = [packets EXCEPT ![p] = @ + 1]
        BY <2>0
      <3> HIDE DEF p
      <3> QED
        BY <3>1, <3>2
    <2> QED
      BY <1>7, <2>1, <2>2 DEF Dispatch, TypeOK, WorkOK, ledgerVars, coolVars
  <1>8. CASE CancelDispatch(s)
    <2>1. WorkOK(work')
      BY <1>0, <1>8, ConstantRecords DEF CancelDispatch, WorkOK
    <2> QED
      BY <1>0, <1>8, <2>1, TypeFromParts DEF CancelDispatch, ledgerVars, coolVars
  <1>9. CASE CompleteWake(s)
    <2>1. Executed(work[s].attempt, work[s].ticket, work[s].accepted) \in Response
      BY DEF Executed, Response, Work
    <2>2. EntriesOK(entries') /\ DrawnOK(entries', issued)
      BY <1>9, <2>1, CompleteKeyType DEF CompleteWake
    <2>3. WorkOK(work')
      BY <1>0, <1>9, ConstantRecords DEF CompleteWake, WorkOK
    <2>4. [attempt |-> work[s].attempt, time |-> clock] \in Receipt
      BY <1>0 DEF Receipt, Work
    <2>5. receipt' \in [Keys -> Receipt]
      BY <1>0, <1>9, <2>4 DEF CompleteWake
    <2> QED
      BY <1>0, <1>9, <2>2, <2>3, <2>5, TypeFromParts DEF CompleteWake, coolVars
  <1> QED
    BY <1>1, <1>2, <1>3, <1>4, <1>5, <1>6, <1>7, <1>8, <1>9 DEF WakeStep

LEMMA ReadStepType ==
    ASSUME TypeOK, NEW s \in Sessions, ReadStep(s)
    PROVE  TypeOK'
  <1> USE KeyTypes
  <1>0. /\ jobs \subseteq Job /\ issued \in 0..MaxTickets
        /\ receipt \in [Keys -> Receipt] /\ WorkOK(work) /\ clock \in Nat
        /\ clock \in Int
    BY DEF TypeOK, WorkOK
  <1>1. CASE BeginRead(s)
    <2>1. PICK o \in ReadOps, kind \in {"list", "status"} :
            LET k == <<ClientOf[s], o>>
                d == [kind |-> kind, hosts |-> {}]
                job == [session |-> s, key |-> k, since |-> clock]
                started == [Idle EXCEPT !.op = o, !.at = clock]
            IN  /\ entries' = Put(PrunedEntries(clock), k,
                                  ReservedEntry(d, NoWake, clock))
                /\ tickets' = PrunedTickets(clock)
                /\ \/ /\ work' = [work EXCEPT ![s] = [started EXCEPT !.pc = "list"]]
                      /\ UNCHANGED jobs
                   \/ /\ jobs' = jobs \cup {job}
                      /\ UNCHANGED work
                   \/ /\ work' = [work EXCEPT ![s] = [started EXCEPT !.pc = "drop"]]
                      /\ UNCHANGED jobs
                   \/ /\ jobs' = jobs \ JobsOf(s)
                      /\ UNCHANGED work
      BY <1>1 DEF BeginRead
    <2> DEFINE k == <<ClientOf[s], o>>
               d == [kind |-> kind, hosts |-> {}]
               e == ReservedEntry(d, NoWake, clock)
               job == [session |-> s, key |-> k, since |-> clock]
               started == [Idle EXCEPT !.op = o, !.at = clock]
    <2>2. k \in Keys /\ o \in Ops
      BY SetsAssumption DEF Keys
    <2>3. d \in Digest
      BY DEF Digest
    <2>4. e \in LedgerEntry
      BY <1>0, <2>3, EntryTypes, ConstantRecords
    <2>5. e.wake.attempt = 0
      BY DEF ReservedEntry, NoWake
    <2>6. job \in Job
      BY <1>0, <2>2 DEF Job
    <2>7. /\ [started EXCEPT !.pc = "list"] \in Work
          /\ [started EXCEPT !.pc = "drop"] \in Work
      BY <1>0, <2>2, ConstantRecords DEF Work
    <2>8. entries' = Put(PrunedEntries(clock), k, e)
      BY <2>1
    <2>9. TicketsOK(tickets')
      BY <2>1, PrunedOK
    <2>10. /\ \/ work' = work
              \/ work' = [work EXCEPT ![s] = [started EXCEPT !.pc = "list"]]
              \/ work' = [work EXCEPT ![s] = [started EXCEPT !.pc = "drop"]]
           /\ jobs' = jobs \/ jobs' = jobs \cup {job} \/ jobs' = jobs \ JobsOf(s)
      BY <2>1
    <2> HIDE DEF e, d, k, job, started
    <2>11. EntriesOK(entries')
      BY <2>2, <2>4, <2>8, PutEntryOK, PrunedOK
    <2>12. DrawnOK(entries', issued)
      BY <2>5, <2>8, PrunedDrawn, PutDrawn
    <2>13. WorkOK(work')
      BY <1>0, <2>7, <2>10 DEF WorkOK
    <2>14. jobs' \subseteq Job
      BY <1>0, <2>6, <2>10
    <2> QED
      BY <1>0, <1>1, <2>9, <2>11, <2>12, <2>13, <2>14, TypeFromParts
         DEF BeginRead, coolVars
  <1>2. CASE AnswerRead(s)
    BY <1>0, <1>2, AnswerType DEF AnswerRead
  <1>3. CASE CompleteList(s)
    <2>1. EntriesOK(entries') /\ DrawnOK(entries', issued)
      BY <1>3, ConstantRecords, CompleteKeyType DEF CompleteList
    <2>2. WorkOK(work')
      BY <1>0, <1>3, ConstantRecords DEF CompleteList, WorkOK
    <2> QED
      BY <1>0, <1>3, <2>1, <2>2, TypeFromParts DEF CompleteList, coolVars
  <1>4. CASE DropStatus(s)
    <2>1. EntriesOK(entries') /\ DrawnOK(entries', issued)
      BY <1>4 DEF DropStatus, EntriesOK, DrawnOK
    <2>2. WorkOK(work')
      BY <1>0, <1>4, ConstantRecords DEF DropStatus, WorkOK
    <2> QED
      BY <1>0, <1>4, <2>1, <2>2, TypeFromParts DEF DropStatus, coolVars
  <1>5. CASE FinishJob(s)
    <2>1. EntriesOK(entries') /\ DrawnOK(entries', issued)
      BY <1>5, ConstantRecords, CompleteKeyType DEF FinishJob
    <2>2. jobs' \subseteq Job
      BY <1>0, <1>5 DEF FinishJob
    <2> QED
      BY <1>0, <1>5, <2>1, <2>2, TypeFromParts DEF FinishJob, coolVars
  <1>6. CASE CloseSession(s)
    BY <1>0, <1>6, TypeFromParts DEF CloseSession, ledgerVars, coolVars
  <1> QED
    BY <1>1, <1>2, <1>3, <1>4, <1>5, <1>6 DEF ReadStep

LEMMA TypeStep ==
    ASSUME TypeOK, [Next]_vars
    PROVE  TypeOK'
  <1>1. CASE \E s \in Sessions : WakeStep(s) \/ ReadStep(s)
    BY <1>1, WakeStepType, ReadStepType
  <1>2. CASE Tick
    BY <1>2 DEF Tick, TypeOK, ledgerVars, coolVars
  <1>3. CASE Restart
    <2>1. /\ last_wake' \in [Clients \X Hosts -> Int]
          /\ reserved' \in [Clients \X Hosts -> Int]
      BY <1>3, TimesAssumption DEF Restart
    <2>2. work' \in [Sessions -> Work] /\ receipt' \in [Keys -> Receipt]
      BY <1>3, ConstantRecords DEF Restart
    <2> QED
      BY <1>3, <2>1, <2>2 DEF Restart, TypeOK
  <1>4. CASE UNCHANGED vars
    BY <1>4 DEF vars, TypeOK
  <1> QED
    BY <1>1, <1>2, <1>3, <1>4 DEF Next

\* Every state of the ledger, of the cooldown table and of the handlers is
\* well formed: each entry names a drawn ticket, each ticket an operation.
THEOREM TypeCorrect == Spec => []TypeOK
  <1>1. Init => TypeOK
    BY TimesAssumption, ConstantRecords DEF Init, TypeOK
  <1>2. TypeOK /\ [Next]_vars => TypeOK'
    BY TypeStep
  <1> QED
    BY <1>1, <1>2, PTL DEF Spec

-----------------------------------------------------------------------------
(* AtMostOnce is an invariant: DispatchInv is inductive.                   *)

\* A step that, of the records with a wake, keeps only some, each with its
\* ticket and attempt.
EntriesFrame ==
    \A k \in DOMAIN entries' :
        \/ entries'[k].wake.attempt = 0
        \/ /\ k \in DOMAIN entries
           /\ entries'[k].wake.attempt = entries[k].wake.attempt
           /\ entries'[k].wake.ticket = entries[k].wake.ticket

\* A step after which session s is executing only what it executed before.
SessionFrame(s) ==
    Executing(s)' =>
        /\ Executing(s)
        /\ work'[s].ticket = work[s].ticket
        /\ work'[s].attempt = work[s].attempt
        /\ work'[s].pc = "reserve" => work[s].pc = "reserve"
        /\ work[s].pc = "reserve" \/ work'[s].todo \subseteq work[s].todo

\* A step that sends nothing, draws nothing and starts no handler.
LEMMA QuietStep ==
    ASSUME TypeOK, DispatchInv, packets' = packets, issued' = issued,
           EntriesFrame, \A s \in Sessions : SessionFrame(s)
    PROVE  DispatchInv'
  <1>1. AtMostOnce'
    BY DEF DispatchInv, AtMostOnce
  <1>2. UnsentTodo'
    BY DEF DispatchInv, UnsentTodo, SessionFrame
  <1>3. DistinctHandlers'
    BY DEF DispatchInv, DistinctHandlers, SessionFrame
  <1>4. RetryUnused'
    BY DEF DispatchInv, RetryUnused, EntriesFrame, SessionFrame
  <1>5. TicketsUnique'
    BY DEF DispatchInv, TicketsUnique, EntriesFrame
  <1>6. UndrawnUnsent'
    BY DEF DispatchInv, UndrawnUnsent
  <1> QED
    BY <1>1, <1>2, <1>3, <1>4, <1>5, <1>6 DEF DispatchInv

\* Pruning, and storing an entry of the same ticket and attempt, are frames.
LEMMA PruneFrame ==
    ASSUME NEW t, entries' = PrunedEntries(t)
    PROVE  EntriesFrame
  BY DEF EntriesFrame, PrunedEntries, Live

LEMMA PutFrame ==
    ASSUME NEW t, NEW k, NEW e, entries' = Put(PrunedEntries(t), k, e),
           \/ e.wake.attempt = 0
           \/ /\ k \in DOMAIN entries
              /\ e.wake.attempt = entries[k].wake.attempt
              /\ e.wake.ticket = entries[k].wake.ticket
    PROVE  EntriesFrame
  BY DEF EntriesFrame, PrunedEntries, Live, Put

LEMMA CompleteFrame ==
    ASSUME TypeOK, NEW k, NEW r, CompleteKey(k, r)
    PROVE  EntriesFrame
  <1>1. CASE k \in DOMAIN entries
    <2> DEFINE e == CompletedEntry(entries[k], r, clock)
    <2>1. entries' = [entries EXCEPT ![k] = e]
      BY <1>1 DEF CompleteKey
    <2>2. e.wake.attempt = entries[k].wake.attempt /\ e.wake.ticket = entries[k].wake.ticket
      BY <1>1, EntryTickets DEF TypeOK
    <2> HIDE DEF e
    <2> QED
      BY <2>1, <2>2 DEF EntriesFrame
  <1>2. CASE k \notin DOMAIN entries
    BY <1>2 DEF CompleteKey, EntriesFrame
  <1> QED
    BY <1>1, <1>2

\* A session set to a record that is not executing, or left alone, is framed.
LEMMA IdleFrame ==
    ASSUME TypeOK, NEW s \in Sessions, NEW w, work' = [work EXCEPT ![s] = w],
           w.pc \notin {"reserve", "dispatch", "complete"}
    PROVE  \A r \in Sessions : SessionFrame(r)
  BY DEF TypeOK, SessionFrame, Executing

LEMMA SameWorkFrame ==
    ASSUME work' = work
    PROVE  \A r \in Sessions : SessionFrame(r)
  BY DEF SessionFrame, Executing

LEMMA SameEntriesFrame ==
    ASSUME entries' = entries
    PROVE  EntriesFrame
  BY DEF EntriesFrame

\* A first attempt starts under a ticket nobody has used.
LEMMA Begin1Dispatch ==
    ASSUME TypeOK, DispatchInv, NEW s \in Sessions, Begin1New(s)
    PROVE  DispatchInv'
  <1> DEFINE t == work[s].at
             x == issued + 1
             k == KeyOf(s)
             w == [attempt |-> 1, ticket |-> x, ticket_expires |-> t + RetryTTL,
                   ticket_used |-> FALSE]
             e == ReservedEntry(WakeDigest(s), w, t)
  <1>1. /\ issued' = x /\ x \in Ticket /\ issued \in Nat
        /\ packets' = packets
        /\ entries' = Put(PrunedEntries(t), k, e)
    BY TimesAssumption DEF Begin1New, TypeOK, Ticket
  <1>2. /\ work'[s].ticket = x /\ work'[s].attempt = 1 /\ work'[s].pc = "reserve"
        /\ \A r \in Sessions \ {s} : work'[r] = work[r]
    BY DEF Begin1New, TypeOK, Work
  <1>3. e.wake.attempt = 1 /\ e.wake.ticket = x
    BY DEF ReservedEntry
  <1> HIDE DEF e
  <1>4. /\ DOMAIN entries' \subseteq DOMAIN entries \cup {k}
        /\ entries'[k] = e /\ k \in DOMAIN entries'
        /\ \A l \in DOMAIN entries' \ {k} :
              l \in DOMAIN entries /\ entries'[l] = entries[l]
    BY <1>1 DEF Put, PrunedEntries, Live
  <1>5. \A l \in DOMAIN entries :
           entries[l].wake.attempt # 0 => entries[l].wake.ticket \in 1..issued
    BY DEF TypeOK
  <1>6. \A a \in 1..2, h \in Hosts : packets[<<x, a, h>>] = 0
    BY <1>1 DEF DispatchInv, UndrawnUnsent
  <1>7. AtMostOnce'
    BY <1>1 DEF DispatchInv, AtMostOnce
  <1>8. UnsentTodo'
    <2> SUFFICES ASSUME NEW r \in Sessions, Executing(r)'
                 PROVE  /\ work'[r].ticket \in 1..issued'
                        /\ work'[r].attempt \in 1..2
                        /\ \A h \in Hosts :
                             (work'[r].pc = "reserve" \/ h \in work'[r].todo) =>
                               packets'[<<work'[r].ticket, work'[r].attempt, h>>] = 0
      BY DEF UnsentTodo
    <2>1. CASE r = s
      BY <1>1, <1>2, <1>6, <2>1
    <2>2. CASE r # s
      BY <1>1, <1>2, <2>2 DEF DispatchInv, UnsentTodo, Executing
    <2> QED
      BY <2>1, <2>2
  <1>9. \A r \in Sessions \ {s} : Executing(r)' => work'[r].ticket # x
    BY <1>1, <1>2 DEF DispatchInv, UnsentTodo, Executing
  <1>10. DistinctHandlers'
    BY <1>2, <1>9 DEF DispatchInv, DistinctHandlers, Executing
  <1>11. RetryUnused'
    <2> SUFFICES ASSUME NEW l \in DOMAIN entries', entries'[l].wake.attempt = 1
                 PROVE  /\ \A h \in Hosts :
                             packets'[<<entries'[l].wake.ticket, 2, h>>] = 0
                        /\ \A r \in Sessions : Executing(r)' =>
                             <<work'[r].ticket, work'[r].attempt>>
                                # <<entries'[l].wake.ticket, 2>>
      BY DEF RetryUnused
    <2>1. CASE l = k
      BY <1>1, <1>2, <1>3, <1>4, <1>6, <1>9, <2>1
    <2>2. CASE l # k
      <3>1. l \in DOMAIN entries /\ entries'[l] = entries[l]
        BY <1>4, <2>2
      <3> QED
        BY <1>1, <1>2, <3>1 DEF DispatchInv, RetryUnused, Executing
    <2> QED
      BY <2>1, <2>2
  <1>12. TicketsUnique'
    <2>1. \A l \in DOMAIN entries' \ {k} :
             entries'[l].wake.attempt # 0 => entries'[l].wake.ticket # x
      BY <1>1, <1>4, <1>5
    <2> QED
      BY <1>3, <1>4, <2>1 DEF DispatchInv, TicketsUnique
  <1>13. UndrawnUnsent'
    BY <1>1 DEF DispatchInv, UndrawnUnsent, Ticket
  <1> QED
    BY <1>7, <1>8, <1>10, <1>11, <1>12, <1>13 DEF DispatchInv

\* A retry spends the record's ticket; nothing of attempt 2 happened before.
LEMMA Begin2Dispatch ==
    ASSUME TypeOK, DispatchInv, NEW s \in Sessions, Begin2New(s)
    PROVE  DispatchInv'
  <1> DEFINE t == work[s].at
             x == work[s].ticket
             k == KeyOf(s)
             e == RetriedEntry(entries[k], t)
  <1>1. /\ issued' = issued /\ packets' = packets
        /\ entries' = Put(PrunedEntries(t), k, e)
        /\ k \in DOMAIN entries
        /\ entries[k].wake.attempt = 1 /\ entries[k].wake.ticket = x
    BY DEF Begin2New, CanRetry, Live
  <1>2. /\ work'[s].ticket = x /\ work'[s].attempt = 2 /\ work'[s].pc = "reserve"
        /\ \A r \in Sessions \ {s} : work'[r] = work[r]
    BY DEF Begin2New, TypeOK, Work
  <1>3. e.wake.attempt = 2 /\ e.wake.ticket = x
    <2>1. entries[k] \in LedgerEntry
      BY <1>1 DEF TypeOK
    <2> QED
      BY <1>1, <2>1 DEF RetriedEntry, LedgerEntry, WakeMeta
  <1>4. x \in 1..issued
    BY <1>1 DEF TypeOK
  <1> HIDE DEF e
  <1>5. /\ entries'[k] = e /\ k \in DOMAIN entries'
        /\ \A l \in DOMAIN entries' \ {k} :
              l \in DOMAIN entries /\ entries'[l] = entries[l]
    BY <1>1 DEF Put, PrunedEntries, Live
  <1>6. /\ \A h \in Hosts : packets[<<x, 2, h>>] = 0
        /\ \A r \in Sessions : Executing(r) =>
              <<work[r].ticket, work[r].attempt>> # <<x, 2>>
    BY <1>1 DEF DispatchInv, RetryUnused
  <1>7. AtMostOnce'
    BY <1>1 DEF DispatchInv, AtMostOnce
  <1>8. UnsentTodo'
    <2> SUFFICES ASSUME NEW r \in Sessions, Executing(r)'
                 PROVE  /\ work'[r].ticket \in 1..issued'
                        /\ work'[r].attempt \in 1..2
                        /\ \A h \in Hosts :
                             (work'[r].pc = "reserve" \/ h \in work'[r].todo) =>
                               packets'[<<work'[r].ticket, work'[r].attempt, h>>] = 0
      BY DEF UnsentTodo
    <2>1. CASE r = s
      BY <1>1, <1>2, <1>4, <1>6, <2>1
    <2>2. CASE r # s
      BY <1>1, <1>2, <2>2 DEF DispatchInv, UnsentTodo, Executing
    <2> QED
      BY <2>1, <2>2
  <1>9. \A r \in Sessions \ {s} : Executing(r)' =>
           <<work'[r].ticket, work'[r].attempt>> # <<x, 2>>
    BY <1>2, <1>6 DEF Executing
  <1>10. DistinctHandlers'
    BY <1>2, <1>9 DEF DispatchInv, DistinctHandlers, Executing
  <1>11. RetryUnused'
    <2> SUFFICES ASSUME NEW l \in DOMAIN entries', entries'[l].wake.attempt = 1
                 PROVE  /\ \A h \in Hosts :
                             packets'[<<entries'[l].wake.ticket, 2, h>>] = 0
                        /\ \A r \in Sessions : Executing(r)' =>
                             <<work'[r].ticket, work'[r].attempt>>
                                # <<entries'[l].wake.ticket, 2>>
      BY DEF RetryUnused
    <2>1. l # k /\ l \in DOMAIN entries /\ entries'[l] = entries[l]
      BY <1>3, <1>5
    <2>2. entries[l].wake.ticket # x
      BY <1>1, <2>1 DEF DispatchInv, TicketsUnique
    <2> QED
      BY <1>1, <1>2, <2>1, <2>2 DEF DispatchInv, RetryUnused, Executing
  <1>12. TicketsUnique'
    <2>1. \A l \in DOMAIN entries' \ {k} :
             entries'[l].wake.attempt # 0 => entries'[l].wake.ticket # x
      BY <1>1, <1>5 DEF DispatchInv, TicketsUnique
    <2> QED
      BY <1>3, <1>5, <2>1 DEF DispatchInv, TicketsUnique
  <1>13. UndrawnUnsent'
    BY <1>1 DEF DispatchInv, UndrawnUnsent
  <1> QED
    BY <1>7, <1>8, <1>10, <1>11, <1>12, <1>13 DEF DispatchInv

\* A target is sent to only by the one handler that still owes it.
LEMMA DispatchDispatch ==
    ASSUME TypeOK, DispatchInv, NEW s \in Sessions, Dispatch(s)
    PROVE  DispatchInv'
  <1>1. PICK h \in work[s].todo, sent \in BOOLEAN :
            /\ packets' = IF sent
                          THEN [packets EXCEPT
                                  ![<<work[s].ticket, work[s].attempt, h>>] = @ + 1]
                          ELSE packets
            /\ work' = [work EXCEPT ![s] = WithResult(work[s], h, sent)]
    BY DEF Dispatch
  <1> DEFINE x == work[s].ticket
             a == work[s].attempt
             p == <<x, a, h>>
  <1>2. /\ issued' = issued /\ entries' = entries
        /\ work[s] \in Work /\ work[s].pc = "dispatch" /\ Executing(s)
    BY DEF Dispatch, TypeOK, ledgerVars, Executing
  <1>3. /\ work'[s].ticket = x /\ work'[s].attempt = a
        /\ work'[s].todo = work[s].todo \ {h}
        /\ work'[s].pc \in {"dispatch", "complete"}
        /\ \A r \in Sessions \ {s} : work'[r] = work[r]
    BY <1>1, <1>2, ResultType DEF TypeOK
  <1>4. /\ x \in 1..issued /\ a \in 1..2 /\ h \in Hosts /\ x \in Ticket
        /\ packets[p] = 0
    BY <1>2, TimesAssumption DEF DispatchInv, UnsentTodo, TypeOK, Work, Ticket
  <1>5. /\ \A q \in DOMAIN packets : q # p => packets'[q] = packets[q]
        /\ packets'[p] \in {0, 1}
        /\ DOMAIN packets' = DOMAIN packets
        /\ DOMAIN packets = Ticket \X (1..2) \X Hosts
        /\ p \in DOMAIN packets
    BY <1>1, <1>4 DEF TypeOK
  <1>6. \A y \in Ticket, b \in 1..2, g \in Hosts :
           <<y, b, g>> # p => packets'[<<y, b, g>>] = packets[<<y, b, g>>]
    BY <1>5
  <1>7. AtMostOnce'
    BY <1>5 DEF DispatchInv, AtMostOnce
  <1>8. UnsentTodo'
    <2> SUFFICES ASSUME NEW r \in Sessions, Executing(r)'
                 PROVE  /\ work'[r].ticket \in 1..issued'
                        /\ work'[r].attempt \in 1..2
                        /\ \A g \in Hosts :
                             (work'[r].pc = "reserve" \/ g \in work'[r].todo) =>
                               packets'[<<work'[r].ticket, work'[r].attempt, g>>] = 0
      BY DEF UnsentTodo
    <2>1. CASE r = s
      <3>1. \A g \in Hosts : g \in work[s].todo \ {h} => packets'[<<x, a, g>>] = 0
        BY <1>2, <1>4, <1>6 DEF DispatchInv, UnsentTodo
      <3> QED
        BY <1>2, <1>3, <1>4, <2>1, <3>1
    <2>2. CASE r # s
      <3>1. Executing(r) /\ work'[r] = work[r]
        BY <1>3, <2>2 DEF Executing
      <3>2. /\ work[r].ticket \in 1..issued /\ work[r].attempt \in 1..2
            /\ work[r].ticket \in Ticket
        BY <3>1, TimesAssumption DEF DispatchInv, UnsentTodo, TypeOK, Ticket
      <3>3. work[r].ticket # x \/ work[r].attempt # a
        BY <1>2, <2>2, <3>1 DEF DispatchInv, DistinctHandlers
      <3>4. \A g \in Hosts : <<work[r].ticket, work[r].attempt, g>> # p
        BY <3>3
      <3> QED
        BY <1>2, <1>6, <3>1, <3>2, <3>4 DEF DispatchInv, UnsentTodo
    <2> QED
      BY <2>1, <2>2
  <1>9. DistinctHandlers'
    BY <1>2, <1>3 DEF DispatchInv, DistinctHandlers, Executing
  <1>10. RetryUnused'
    <2> SUFFICES ASSUME NEW l \in DOMAIN entries, entries[l].wake.attempt = 1
                 PROVE  /\ \A g \in Hosts :
                             packets'[<<entries[l].wake.ticket, 2, g>>] = 0
                        /\ \A r \in Sessions : Executing(r)' =>
                             <<work'[r].ticket, work'[r].attempt>>
                                # <<entries[l].wake.ticket, 2>>
      BY <1>2 DEF RetryUnused
    <2>1. entries[l].wake.ticket \in Ticket
      BY TimesAssumption DEF TypeOK, Ticket
    <2>2. <<x, a>> # <<entries[l].wake.ticket, 2>>
      BY <1>2 DEF DispatchInv, RetryUnused
    <2>3. \A g \in Hosts : packets'[<<entries[l].wake.ticket, 2, g>>] = 0
      BY <1>6, <2>1, <2>2 DEF DispatchInv, RetryUnused
    <2> QED
      BY <1>2, <1>3, <2>2, <2>3 DEF DispatchInv, RetryUnused, Executing
  <1>11. TicketsUnique'
    BY <1>2 DEF DispatchInv, TicketsUnique
  <1>12. UndrawnUnsent'
    <2> SUFFICES ASSUME NEW y \in Ticket, NEW b \in 1..2, NEW g \in Hosts,
                        y > issued
                 PROVE  packets'[<<y, b, g>>] = 0
      BY <1>2 DEF UndrawnUnsent
    <2>1. y # x
      BY <1>4 DEF Ticket, TypeOK
    <2>2. <<y, b, g>> # p
      BY <2>1
    <2> QED
      BY <1>6, <2>2 DEF DispatchInv, UndrawnUnsent
  <1> QED
    BY <1>7, <1>8, <1>9, <1>10, <1>11, <1>12 DEF DispatchInv

LEMMA DispatchStep ==
    ASSUME TypeOK, DispatchInv, [Next]_vars
    PROVE  DispatchInv'
  <1>1. ASSUME NEW s \in Sessions, WakeStep(s)
        PROVE  DispatchInv'
    <2> USE KeyTypes, ConstantRecords
    <2>1. CASE ReceiveWake(s)
      <3>1. PICK o \in WakeOps, hs \in (SUBSET Hosts) \ {{}},
                 w \in {<<1, 0>>} \cup ({2} \X (1..issued)) :
              /\ w[1] = 1 => MayDraw
              /\ work' = [work EXCEPT ![s] =
                        [Idle EXCEPT !.pc = "begin", !.op = o, !.hosts = hs,
                                     !.attempt = w[1], !.ticket = w[2],
                                     !.at = clock]]
        BY <2>1 DEF ReceiveWake
      <3>2. [Idle EXCEPT !.pc = "begin", !.op = o, !.hosts = hs, !.attempt = w[1],
                         !.ticket = w[2], !.at = clock].pc = "begin"
        BY DEF Idle
      <3> QED
        BY <2>1, <3>1, <3>2, IdleFrame, SameEntriesFrame, QuietStep
           DEF ReceiveWake, ledgerVars
    <2>2. CASE Begin1New(s)
      BY <2>2, Begin1Dispatch
    <2>3. CASE RecoverReceipt(s)
      <3>1. KeyOf(s) \in DOMAIN entries /\ entries[KeyOf(s)] \in LedgerEntry
        BY <2>3 DEF RecoverReceipt, CanRecover, Live, EntriesOK
      <3>2. EntriesFrame
        BY <2>3, <3>1, EntryTickets, PutFrame DEF RecoverReceipt
      <3> QED
        BY <2>3, <3>2, IdleFrame, QuietStep DEF RecoverReceipt
    <2>4. CASE Begin2New(s)
      BY <2>4, Begin2Dispatch
    <2>5. CASE RefuseWake(s)
      BY <2>5, PruneFrame, IdleFrame, QuietStep DEF RefuseWake, AnswerAfterPrune
    <2>6. CASE Reserve(s)
      <3>1. \A r \in Sessions : SessionFrame(r)
        <4> DEFINE c == [work[s] EXCEPT !.pc = "complete"]
                   d == [work[s] EXCEPT !.pc = "dispatch", !.todo = work[s].hosts]
        <4>1. /\ work' = [work EXCEPT ![s] = c] \/ work' = [work EXCEPT ![s] = d]
              /\ work[s].pc = "reserve"
          BY <2>6 DEF Reserve
        <4>2. \A v \in {c, d} : /\ v.pc \in {"complete", "dispatch"}
                                /\ v.ticket = work[s].ticket
                                /\ v.attempt = work[s].attempt
          BY DEF Work
        <4> HIDE DEF c, d
        <4> QED
          BY <4>1, <4>2 DEF TypeOK, SessionFrame, Executing
      <3> QED
        BY <2>6, <3>1, SameEntriesFrame, QuietStep DEF Reserve, ledgerVars
    <2>7. CASE Dispatch(s)
      BY <2>7, DispatchDispatch
    <2>8. CASE CancelDispatch(s)
      BY <2>8, IdleFrame, SameEntriesFrame, QuietStep DEF CancelDispatch, ledgerVars
    <2>9. CASE CompleteWake(s)
      BY <2>9, CompleteFrame, IdleFrame, QuietStep DEF CompleteWake
    <2> QED
      BY <1>1, <2>1, <2>2, <2>3, <2>4, <2>5, <2>6, <2>7, <2>8, <2>9 DEF WakeStep
  <1>2. ASSUME NEW s \in Sessions, ReadStep(s)
        PROVE  DispatchInv'
    <2> USE KeyTypes, ConstantRecords
    <2>1. CASE BeginRead(s)
      <3>1. PICK k, d : entries' = Put(PrunedEntries(clock), k,
                                       ReservedEntry(d, NoWake, clock))
        BY <2>1 DEF BeginRead
      <3>2. EntriesFrame
        <4>1. ReservedEntry(d, NoWake, clock).wake.attempt = 0
          BY DEF ReservedEntry, NoWake
        <4> QED
          BY <3>1, <4>1, PutFrame
      <3>3. PICK o :
              \/ work' = work
              \/ work' = [work EXCEPT ![s] =
                    [[Idle EXCEPT !.op = o, !.at = clock] EXCEPT !.pc = "list"]]
              \/ work' = [work EXCEPT ![s] =
                    [[Idle EXCEPT !.op = o, !.at = clock] EXCEPT !.pc = "drop"]]
        BY <2>1 DEF BeginRead
      <3>4. /\ [[Idle EXCEPT !.op = o, !.at = clock] EXCEPT !.pc = "list"].pc = "list"
            /\ [[Idle EXCEPT !.op = o, !.at = clock] EXCEPT !.pc = "drop"].pc = "drop"
        BY DEF Idle
      <3>5. \A r \in Sessions : SessionFrame(r)
        BY <3>3, <3>4, IdleFrame, SameWorkFrame
      <3> QED
        BY <2>1, <3>2, <3>5, QuietStep DEF BeginRead
    <2>2. CASE AnswerRead(s)
      BY <2>2, PruneFrame, IdleFrame, QuietStep DEF AnswerRead, AnswerAfterPrune
    <2>3. CASE CompleteList(s)
      BY <2>3, CompleteFrame, IdleFrame, QuietStep DEF CompleteList
    <2>4. CASE DropStatus(s)
      <3>1. EntriesFrame
        BY <2>4 DEF DropStatus, EntriesFrame
      <3> QED
        BY <2>4, <3>1, IdleFrame, QuietStep DEF DropStatus
    <2>5. CASE FinishJob(s)
      BY <2>5, CompleteFrame, SameEntriesFrame, SameWorkFrame, QuietStep
         DEF FinishJob
    <2>6. CASE CloseSession(s)
      BY <2>6, SameEntriesFrame, SameWorkFrame, QuietStep
         DEF CloseSession, ledgerVars
    <2> QED
      BY <1>2, <2>1, <2>2, <2>3, <2>4, <2>5, <2>6 DEF ReadStep
  <1>3. CASE Tick
    BY <1>3, SameEntriesFrame, SameWorkFrame, QuietStep DEF Tick, ledgerVars
  <1>4. CASE Restart
    <2>1. EntriesFrame
      BY <1>4 DEF Restart, EntriesFrame
    <2>2. \A r \in Sessions : SessionFrame(r)
      BY <1>4, ConstantRecords DEF Restart, SessionFrame, Executing
    <2> QED
      BY <1>4, <2>1, <2>2, QuietStep DEF Restart
  <1>5. CASE UNCHANGED vars
    BY <1>5, SameEntriesFrame, SameWorkFrame, QuietStep DEF vars
  <1> QED
    BY <1>1, <1>2, <1>3, <1>4, <1>5 DEF Next

LEMMA DispatchInit ==
    ASSUME Init
    PROVE  DispatchInv
  <1>1. \A s \in Sessions : ~Executing(s)
    BY ConstantRecords DEF Init, Executing
  <1>2. DOMAIN entries = {}
    BY DEF Init
  <1>3. /\ \A p \in DOMAIN packets : packets[p] = 0
        /\ \A x \in Ticket, a \in 1..2, h \in Hosts : packets[<<x, a, h>>] = 0
    BY DEF Init
  <1> QED
    BY <1>1, <1>2, <1>3 DEF DispatchInv, AtMostOnce, UnsentTodo,
       DistinctHandlers, RetryUnused, TicketsUnique, UndrawnUnsent

\* Whatever clients resend, however sessions interleave, stall or die and
\* across restarts, no attempt of an issued operation sends a host two packets.
THEOREM NoDuplicateDispatch == Spec => []AtMostOnce
  <1>1. Init => DispatchInv
    BY DispatchInit
  <1>2. TypeOK /\ DispatchInv /\ [Next]_vars => DispatchInv'
    BY DispatchStep
  <1>3. DispatchInv => AtMostOnce
    BY DEF DispatchInv
  <1> QED
    BY <1>1, <1>2, <1>3, TypeCorrect, PTL DEF Spec

-----------------------------------------------------------------------------
(* LedgerBounded is an invariant: a key enters the pruned ledger only when  *)
(* both limits leave room for it.                                          *)

ClientPart(D, c) == {k \in D : k[1] = c}
Bounded(D) ==
    /\ IsFiniteSet(D)
    /\ Cardinality(D) <= MaxEntries
    /\ \A c \in Clients : Cardinality(ClientPart(D, c)) <= MaxEntriesPerClient
BoundedInv == Bounded(DOMAIN entries)

\* Dropping keys keeps the limits.
LEMMA BoundedSubset ==
    ASSUME NEW D, NEW E \in SUBSET D, Bounded(D)
    PROVE  Bounded(E)
  <1>1. IsFiniteSet(E) /\ Cardinality(E) <= Cardinality(D)
    BY FS_Subset DEF Bounded
  <1>2. ASSUME NEW c \in Clients
        PROVE  Cardinality(ClientPart(E, c)) <= MaxEntriesPerClient
    <2>1. IsFiniteSet(ClientPart(D, c))
      BY FS_Subset DEF Bounded, ClientPart
    <2>2. ClientPart(E, c) \in SUBSET ClientPart(D, c)
      BY DEF ClientPart
    <2>3. /\ IsFiniteSet(ClientPart(E, c))
          /\ Cardinality(ClientPart(E, c)) <= Cardinality(ClientPart(D, c))
      BY <2>1, <2>2, FS_Subset
    <2> QED
      BY <2>1, <2>3, FS_CardinalityType, LimitsAssumption DEF Bounded
  <1> QED
    BY <1>1, <1>2, FS_CardinalityType, LimitsAssumption DEF Bounded

LEMMA CardinalityAdd ==
    ASSUME NEW S, IsFiniteSet(S), NEW x
    PROVE  /\ IsFiniteSet(S \cup {x})
           /\ Cardinality(S) \in Nat
           /\ Cardinality(S \cup {x}) \in {Cardinality(S), Cardinality(S) + 1}
  <1>1. Cardinality(S) \in Nat
    BY FS_CardinalityType
  <1>2. /\ IsFiniteSet(S \cup {x})
        /\ Cardinality(S \cup {x}) =
              IF x \in S THEN Cardinality(S) ELSE Cardinality(S) + 1
    BY FS_AddElement, Zenon
  <1> QED
    BY <1>1, <1>2

\* Adding a key where both limits leave room keeps them.
LEMMA BoundedAdd ==
    ASSUME NEW L, Bounded(L), NEW k,
           Cardinality(L) < MaxEntries,
           Cardinality(ClientPart(L, k[1])) < MaxEntriesPerClient
    PROVE  Bounded(L \cup {k})
  <1>0. IsFiniteSet(L) /\ Cardinality(L) \in Nat
    BY FS_CardinalityType DEF Bounded
  <1>1. /\ IsFiniteSet(L \cup {k})
        /\ Cardinality(L \cup {k}) <= MaxEntries
    BY <1>0, CardinalityAdd, LimitsAssumption
  <1>2. ASSUME NEW c \in Clients
        PROVE  Cardinality(ClientPart(L \cup {k}, c)) <= MaxEntriesPerClient
    <2>1. IsFiniteSet(ClientPart(L, c)) /\ Cardinality(ClientPart(L, c)) \in Nat
      BY <1>0, FS_Subset, FS_CardinalityType DEF ClientPart
    <2>2. CASE c = k[1]
      <3>1. ClientPart(L \cup {k}, c) = ClientPart(L, c) \cup {k}
        BY <2>2 DEF ClientPart
      <3> QED
        BY <2>1, <2>2, <3>1, CardinalityAdd, LimitsAssumption
    <2>3. CASE c # k[1]
      <3>1. ClientPart(L \cup {k}, c) = ClientPart(L, c)
        BY <2>3 DEF ClientPart
      <3> QED
        BY <3>1 DEF Bounded
    <2> QED
      BY <2>2, <2>3
  <1> QED
    BY <1>1, <1>2 DEF Bounded

\* Every step either keeps a subset of the keys or adds one where
\* has_capacity_for found room after pruning.
LEMMA BoundedStep ==
    ASSUME TypeOK, BoundedInv, [Next]_vars
    PROVE  BoundedInv'
  <1> USE DEF BoundedInv
  <1>1. ASSUME DOMAIN entries' \subseteq DOMAIN entries
        PROVE  BoundedInv'
    BY <1>1, BoundedSubset
  <1>2. ASSUME NEW t, NEW c, NEW k, k[1] = c, HasCapacityFor(c, t),
               DOMAIN entries' = Live(t) \cup {k}
        PROVE  BoundedInv'
    <2>1. Bounded(Live(t))
      BY BoundedSubset DEF Live
    <2>2. /\ Cardinality(Live(t)) < MaxEntries
          /\ Cardinality(ClientPart(Live(t), k[1])) < MaxEntriesPerClient
      BY <1>2 DEF HasCapacityFor, ClientPart
    <2> QED
      BY <1>2, <2>1, <2>2, BoundedAdd
  <1>3. \A t : DOMAIN PrunedEntries(t) = Live(t) /\ Live(t) \subseteq DOMAIN entries
    BY DEF PrunedEntries, Live
  <1>4. \A t, k, e : DOMAIN Put(PrunedEntries(t), k, e) = Live(t) \cup {k}
    BY <1>3 DEF Put
  <1>5. ASSUME NEW s \in Sessions, WakeStep(s)
        PROVE  BoundedInv'
    <2>1. CASE Begin1New(s)
      <3>1. KeyOf(s)[1] = ClientOf[s]
        BY DEF KeyOf
      <3>2. /\ HasCapacityFor(ClientOf[s], work[s].at)
            /\ \E e : entries' = Put(PrunedEntries(work[s].at), KeyOf(s), e)
        BY <2>1 DEF Begin1New
      <3>3. DOMAIN entries' = Live(work[s].at) \cup {KeyOf(s)}
        BY <3>2, <1>4
      <3> QED
        BY <3>1, <3>2, <3>3, <1>2
    <2>2. CASE Begin2New(s) \/ RecoverReceipt(s)
      <3>1. /\ KeyOf(s) \in Live(work[s].at)
            /\ \E e : entries' = Put(PrunedEntries(work[s].at), KeyOf(s), e)
        BY <2>2 DEF Begin2New, CanRetry, RecoverReceipt, CanRecover
      <3>2. DOMAIN entries' = Live(work[s].at) \cup {KeyOf(s)}
        BY <3>1, <1>4
      <3> QED
        BY <3>1, <3>2, <1>1, <1>3
    <2>3. CASE RefuseWake(s)
      BY <2>3, <1>1, <1>3 DEF RefuseWake, AnswerAfterPrune
    <2>4. CASE CompleteWake(s)
      BY <2>4, <1>1 DEF CompleteWake, CompleteKey
    <2>5. CASE ReceiveWake(s) \/ Reserve(s) \/ Dispatch(s) \/ CancelDispatch(s)
      BY <2>5, <1>1 DEF ReceiveWake, Reserve, Dispatch, CancelDispatch, ledgerVars
    <2> QED
      BY <1>5, <2>1, <2>2, <2>3, <2>4, <2>5 DEF WakeStep
  <1>6. ASSUME NEW s \in Sessions, ReadStep(s)
        PROVE  BoundedInv'
    <2>1. CASE BeginRead(s)
      <3>1. PICK o, e :
               /\ HasCapacityFor(ClientOf[s], clock)
               /\ entries' = Put(PrunedEntries(clock), <<ClientOf[s], o>>, e)
        BY <2>1 DEF BeginRead
      <3> QED
        BY <3>1, <1>2, <1>4
    <2>2. CASE AnswerRead(s)
      BY <2>2, <1>1, <1>3 DEF AnswerRead, AnswerAfterPrune
    <2>3. CASE CompleteList(s) \/ FinishJob(s)
      BY <2>3, <1>1 DEF CompleteList, FinishJob, CompleteKey
    <2>4. CASE DropStatus(s)
      BY <2>4, <1>1 DEF DropStatus
    <2>5. CASE CloseSession(s)
      BY <2>5, <1>1 DEF CloseSession, ledgerVars
    <2> QED
      BY <1>6, <2>1, <2>2, <2>3, <2>4, <2>5 DEF ReadStep
  <1>7. CASE Tick \/ UNCHANGED vars
    BY <1>7, <1>1 DEF Tick, ledgerVars, vars
  <1>8. CASE Restart
    BY <1>8, <1>1 DEF Restart
  <1> QED
    BY <1>5, <1>6, <1>7, <1>8 DEF Next

\* However many sessions fill it at once, and whatever they abandon, the
\* ledger keeps to MAX_LEDGER_ENTRIES, each client to its own share.
THEOREM LedgerKeepsLimits == Spec => []LedgerBounded
  <1>1. Init => BoundedInv
    <2> SUFFICES ASSUME Init PROVE Bounded({})
      BY DEF Init, BoundedInv
    <2>1. \A c : ClientPart({}, c) = {}
      BY DEF ClientPart
    <2> QED
      BY <2>1, FS_EmptySet, LimitsAssumption DEF Bounded
  <1>2. TypeOK /\ BoundedInv /\ [Next]_vars => BoundedInv'
    BY BoundedStep
  <1>3. BoundedInv => LedgerBounded
    BY DEF BoundedInv, Bounded, ClientPart, LedgerBounded
  <1> QED
    BY <1>1, <1>2, <1>3, TypeCorrect, PTL DEF Spec

-----------------------------------------------------------------------------
(* CooldownHolds is an action property: Cooled and InstantsFresh are       *)
(* inductive together.                                                     *)

\* What one session's step may do to the instants that requests hold.
FreshWork(s) ==
    \A r \in Sessions :
        \/ work'[r] = work[r]
        \/ work'[r].pc \notin {"begin", "reserve"}
        \/ r = s /\ work'[r].at = clock
        \/ /\ r = s /\ work[r].pc \in {"begin", "reserve"}
           /\ work'[r].at = work[r].at

\* An instant is read when a request begins and kept until its reservation.
LEMMA FreshStep ==
    ASSUME TypeOK, InstantsFresh, [Next]_vars
    PROVE  InstantsFresh'
  <1> USE TimesAssumption
  <1>1. ASSUME NEW s \in Sessions, FreshWork(s), clock' = clock
        PROVE  InstantsFresh'
    <2>1. clock \in Nat /\ \A r \in Sessions : work[r].at \in Nat
      BY DEF TypeOK, Work
    <2> QED
      BY <1>1, <2>1 DEF InstantsFresh, FreshWork
  <1>2. ASSUME NEW s \in Sessions, WakeStep(s)
        PROVE  InstantsFresh'
    <2>1. work \in [Sessions -> Work] /\ clock' = clock
      BY <1>2
         DEF TypeOK, WakeStep, ReceiveWake, Begin1New, RecoverReceipt, Begin2New,
             RefuseWake, AnswerAfterPrune, Reserve, Dispatch, CancelDispatch,
             CompleteWake
    <2> SUFFICES FreshWork(s)
      BY <1>1, <2>1
    <2>2. CASE ReceiveWake(s)
      BY <2>1, <2>2 DEF ReceiveWake, FreshWork, Idle
    <2>3. CASE Begin1New(s) \/ Begin2New(s)
      <3>1. work[s].pc = "begin"
        BY <2>3 DEF Begin1New, Begin2New
      <3>2. PICK w : /\ work' = [work EXCEPT ![s] = w]
                     /\ w \in {[work[s] EXCEPT !.pc = "reserve", !.ticket = issued + 1],
                               [work[s] EXCEPT !.pc = "reserve"]}
        BY <2>3 DEF Begin1New, Begin2New
      <3>3. w.at = work[s].at
        BY <2>1, <3>2 DEF Work
      <3> QED
        BY <2>1, <3>1, <3>2, <3>3 DEF FreshWork
    <2>4. CASE RecoverReceipt(s) \/ RefuseWake(s) \/ CancelDispatch(s)
      BY <2>1, <2>4
         DEF RecoverReceipt, RefuseWake, AnswerAfterPrune, CancelDispatch,
             FreshWork, Idle
    <2>5. CASE Reserve(s)
      <3>1. PICK w : /\ work' = [work EXCEPT ![s] = w]
                     /\ w \in {[work[s] EXCEPT !.pc = "complete"],
                               [work[s] EXCEPT !.pc = "dispatch", !.todo = work[s].hosts]}
        BY <2>5 DEF Reserve
      <3>2. w.pc \in {"complete", "dispatch"}
        BY <2>1, <3>1 DEF Work
      <3> QED
        BY <2>1, <3>1, <3>2 DEF FreshWork
    <2>6. CASE Dispatch(s)
      <3>1. PICK h \in work[s].todo, sent \in BOOLEAN :
               work' = [work EXCEPT ![s] = WithResult(work[s], h, sent)]
        BY <2>6 DEF Dispatch
      <3>2. work[s].pc = "dispatch" /\ work[s] \in Work
        BY <2>1, <2>6 DEF Dispatch
      <3>3. WithResult(work[s], h, sent).pc \in {"dispatch", "complete"}
        BY <3>2 DEF WithResult, Work
      <3> QED
        BY <2>1, <3>1, <3>3 DEF FreshWork
    <2>7. CASE CompleteWake(s)
      BY <2>1, <2>7 DEF CompleteWake, FreshWork, Idle
    <2> QED
      BY <1>2, <2>2, <2>3, <2>4, <2>5, <2>6, <2>7 DEF WakeStep
  <1>3. ASSUME NEW s \in Sessions, ReadStep(s)
        PROVE  InstantsFresh'
    <2>1. work \in [Sessions -> Work] /\ clock' = clock
      BY <1>3
         DEF TypeOK, ReadStep, BeginRead, AnswerRead, AnswerAfterPrune,
             CompleteList, DropStatus, FinishJob, CloseSession
    <2> SUFFICES FreshWork(s)
      BY <1>1, <2>1
    <2>2. CASE BeginRead(s)
      BY <2>1, <2>2 DEF BeginRead, FreshWork, Idle
    <2>3. CASE ReadStep(s) /\ ~BeginRead(s)
      BY <2>1, <2>3
         DEF ReadStep, AnswerRead, AnswerAfterPrune, CompleteList, DropStatus,
             FinishJob, CloseSession, FreshWork, Idle
    <2> QED
      BY <1>3, <2>2, <2>3
  <1>4. CASE Tick
    <2>1. clock \in Nat /\ \A r \in Sessions : work[r].at \in Nat
      BY DEF TypeOK, Work
    <2>2. clock' = clock + 1 /\ work' = work
      BY <1>4 DEF Tick
    <2>3. \A r \in Sessions : work[r].pc # "idle" => clock < work[r].at + HoldLimit
      BY <1>4 DEF Tick
    <2> QED
      BY <2>1, <2>2, <2>3 DEF InstantsFresh
  <1>5. CASE Restart
    BY <1>5 DEF Restart, Idle, InstantsFresh
  <1>6. CASE UNCHANGED vars
    BY <1>6 DEF vars, InstantsFresh
  <1> QED
    BY <1>2, <1>3, <1>4, <1>5, <1>6 DEF Next

\* What is removed from the table has cooled, and a recorded instant is at
\* most HoldLimit older than its reservation.
LEMMA CooledStep ==
    ASSUME TypeOK, InstantsFresh, Cooled, [Next]_vars
    PROVE  Cooled' /\ (CooldownStep \/ UNCHANGED vars)
  <1> USE TimesAssumption
  <1>1. ASSUME UNCHANGED coolVars, clock' \in {clock, clock + 1}
        PROVE  Cooled'
    BY <1>1 DEF Cooled, TypeOK, coolVars
  <1>2. ASSUME \A s \in Sessions : ~Reserves(s)
        PROVE  CooldownStep
    BY <1>2 DEF CooldownStep
  <1>3. ASSUME NEW s \in Sessions, Reserve(s)
        PROVE  Cooled' /\ CooldownStep
    <2>1. PICK t \in work[s].at..clock :
            \/ /\ cooling' = CoolingAt(t)
               /\ UNCHANGED <<last_wake, reserved>>
               /\ work' = [work EXCEPT ![s] = [@ EXCEPT !.pc = "complete"]]
            \/ /\ Targets(s) \cap CoolingAt(t) = {}
               /\ cooling' = CoolingAt(t) \cup Targets(s)
               /\ last_wake' = [ch \in Clients \X Hosts |->
                                   IF ch \in Targets(s) THEN t ELSE last_wake[ch]]
               /\ reserved' = [ch \in Clients \X Hosts |->
                                  IF ch \in Targets(s) THEN clock ELSE reserved[ch]]
               /\ work' = [work EXCEPT ![s] =
                             [@ EXCEPT !.pc = "dispatch", !.todo = work[s].hosts]]
      BY <1>3 DEF Reserve
    <2>2. t \in Nat /\ t <= clock /\ clock \in Nat /\ clock' = clock
      BY <1>3, <2>1 DEF Reserve, TypeOK, Work
    <2>3. clock <= t + HoldLimit
      <3>1. work[s].at \in Nat /\ work[s].at <= t
        BY <2>1, <2>2 DEF TypeOK, Work
      <3>2. clock <= work[s].at + HoldLimit
        BY <1>3 DEF Reserve, InstantsFresh
      <3> QED
        BY <2>2, <3>1, <3>2
    <2>4. ASSUME NEW ch \in Clients \X Hosts, ch \notin CoolingAt(t)
          PROVE  clock - last_wake[ch] >= Cooldown
      BY <2>2, <2>4 DEF CoolingAt, Cooled, TypeOK
    <2>5. \A ch \in Clients \X Hosts :
             /\ last_wake[ch] \in Int /\ last_wake[ch] >= -Cooldown
             /\ reserved[ch] \in Int /\ reserved[ch] <= last_wake[ch] + HoldLimit
      BY DEF TypeOK, Cooled
    <2>6. \A r \in Sessions : work[r].pc = "reserve" /\ work'[r].pc = "dispatch" => r = s
      BY <2>1 DEF TypeOK, Work
    <2>7. CASE /\ cooling' = CoolingAt(t)
               /\ UNCHANGED <<last_wake, reserved>>
               /\ work' = [work EXCEPT ![s] = [@ EXCEPT !.pc = "complete"]]
      <3>1. Cooled'
        BY <2>2, <2>4, <2>5, <2>7 DEF Cooled
      <3>2. ~Reserves(s)
        BY <2>7 DEF Reserves, TypeOK, Work
      <3> QED
        BY <1>2, <2>6, <3>1, <3>2 DEF Reserves
    <2>8. CASE /\ Targets(s) \cap CoolingAt(t) = {}
               /\ cooling' = CoolingAt(t) \cup Targets(s)
               /\ last_wake' = [ch \in Clients \X Hosts |->
                                   IF ch \in Targets(s) THEN t ELSE last_wake[ch]]
               /\ reserved' = [ch \in Clients \X Hosts |->
                                  IF ch \in Targets(s) THEN clock ELSE reserved[ch]]
      <3>1. Cooled'
        BY <2>2, <2>3, <2>4, <2>5, <2>8 DEF Cooled
      <3>2. Targets(s) \subseteq Clients \X Hosts
        BY SetsAssumption DEF Targets, TypeOK, Work
      <3>3. ASSUME NEW ch \in Targets(s)
            PROVE  /\ clock - last_wake[ch] >= Cooldown
                   /\ clock - reserved[ch] >= Cooldown - HoldLimit
                   /\ last_wake'[ch] - last_wake[ch] >= Cooldown - HoldLimit
        <4>1. ch \in Clients \X Hosts /\ ch \notin CoolingAt(t)
          BY <2>8, <3>2
        <4>2. clock - last_wake[ch] >= Cooldown
          BY <2>4, <4>1
        <4>3. last_wake'[ch] = t
          BY <2>8, <4>1
        <4> QED
          BY <2>2, <2>3, <2>5, <4>1, <4>2, <4>3
      <3> QED
        BY <2>6, <3>1, <3>3 DEF CooldownStep, Reserves
    <2> QED
      BY <2>1, <2>7, <2>8
  <1>4. ASSUME NEW s \in Sessions, WakeStep(s), ~Reserve(s)
        PROVE  Cooled' /\ CooldownStep
    <2>1. UNCHANGED coolVars /\ clock' = clock
      BY <1>4
         DEF WakeStep, ReceiveWake, Begin1New, RecoverReceipt, Begin2New,
             RefuseWake, AnswerAfterPrune, Dispatch, CancelDispatch, CompleteWake
    <2>2. \A r \in Sessions : work[r].pc = "reserve" => work'[r].pc # "dispatch"
      BY <1>4
         DEF WakeStep, ReceiveWake, Begin1New, RecoverReceipt, Begin2New,
             RefuseWake, AnswerAfterPrune, Dispatch, CancelDispatch, CompleteWake,
             Idle, TypeOK, Work
    <2> QED
      BY <1>1, <1>2, <2>1, <2>2 DEF Reserves
  <1>5. ASSUME NEW s \in Sessions, ReadStep(s)
        PROVE  Cooled' /\ CooldownStep
    <2>1. UNCHANGED coolVars /\ clock' = clock
      BY <1>5
         DEF ReadStep, BeginRead, AnswerRead, AnswerAfterPrune, CompleteList,
             DropStatus, FinishJob, CloseSession
    <2>2. \A r \in Sessions : work[r].pc = "reserve" => work'[r].pc # "dispatch"
      BY <1>5
         DEF ReadStep, BeginRead, AnswerRead, AnswerAfterPrune, CompleteList,
             DropStatus, FinishJob, CloseSession, Idle, TypeOK, Work
    <2> QED
      BY <1>1, <1>2, <2>1, <2>2 DEF Reserves
  <1>6. CASE Tick
    BY <1>1, <1>2, <1>6 DEF Tick, Reserves
  <1>7. CASE Restart
    <2>1. \A ch \in Clients \X Hosts :
             /\ last_wake'[ch] = -Cooldown /\ reserved'[ch] = -Cooldown
      BY <1>7 DEF Restart
    <2>2. clock \in Nat /\ clock' = clock /\ cooling' = {}
      BY <1>7 DEF Restart, TypeOK
    <2>3. \A r \in Sessions : ~Reserves(r)
      BY <1>7 DEF Restart, Idle, Reserves
    <2> QED
      BY <1>2, <2>1, <2>2, <2>3 DEF Cooled
  <1>8. CASE UNCHANGED vars
    BY <1>1, <1>8 DEF vars, coolVars
  <1> QED
    BY <1>3, <1>4, <1>5, <1>6, <1>7, <1>8 DEF Next

\* Every reservation of a host happens at least a cooldown after the instant
\* recorded for the client's previous one, so that two reservations, and two
\* recorded instants, are a cooldown apart less the time a request may be held
\* up before it takes the mutex: in any number of racing sessions, whoever
\* prunes the table, and within one life of the server.
THEOREM CooldownRespected == Spec => CooldownHolds
  <1>1. Init => InstantsFresh /\ Cooled
    BY TimesAssumption DEF Init, Cooled, InstantsFresh, Idle
  <1>2. TypeOK /\ InstantsFresh /\ [Next]_vars => InstantsFresh'
    BY FreshStep
  <1>3. TypeOK /\ InstantsFresh /\ Cooled /\ [Next]_vars =>
            Cooled' /\ [CooldownStep]_vars
    BY CooledStep
  <1> QED
    BY <1>1, <1>2, <1>3, TypeCorrect, PTL DEF Spec, CooldownHolds


-----------------------------------------------------------------------------
(* HoldInv is inductive: every owner keeps the record it reserved.         *)

\* The operations that a handler or a status job has reserved.
HeldKeys ==
    {KeyOf(s) : s \in {r \in Sessions : Holds(r)}} \cup {j.key : j \in jobs}

\* A step that leaves the record of operation k as it is.
KeyKept(k) == k \in DOMAIN entries' /\ entries'[k] = entries[k]

\* A step after which session s owns only what it owned before.
HoldFrame(s) ==
    /\ Holds(s)' => /\ Holds(s)
                    /\ work'[s].op = work[s].op
                    /\ work'[s].at = work[s].at
                    /\ work'[s].ticket = work[s].ticket
                    /\ work'[s].attempt = work[s].attempt
                    /\ Executing(s)' = Executing(s)
    /\ work'[s].pc # "idle" =>
          \/ work'[s].at = clock
          \/ work[s].pc # "idle" /\ work'[s].at = work[s].at

\* A reservation outlives its owner's work: pruning at any instant that has
\* been read keeps it.
LEMMA HeldLive ==
    ASSUME HandlersFinish, TypeOK, HoldInv, NEW k \in HeldKeys,
           NEW t \in Int, t <= clock
    PROVE  k \in Live(t) /\ entries[k].pending
  <1> USE TimesAssumption DEF HandlersFinish
  <1>1. ASSUME NEW s \in Sessions, Holds(s), k = KeyOf(s)
        PROVE  k \in Live(t) /\ entries[k].pending
    <2>1. ReservedAt(k, work[s].at)
      BY <1>1 DEF HoldInv, HeldReserved
    <2>2. /\ work[s].at \in Nat /\ clock \in Nat
          /\ clock <= work[s].at + HoldLimit
      BY <1>1 DEF TypeOK, Work, HoldInv, WithinHold, Holds
    <2>3. t < work[s].at + PendingTTL
      BY <2>2
    <2> QED
      BY <2>1, <2>3 DEF ReservedAt, Live
  <1>2. ASSUME NEW j \in jobs, k = j.key
        PROVE  k \in Live(t) /\ entries[k].pending
    <2>1. ReservedAt(k, j.since)
      BY <1>2 DEF HoldInv, HeldReserved
    <2>2. /\ j.since \in Nat /\ clock \in Nat
          /\ clock <= j.since + HoldLimit
      BY DEF TypeOK, Job, HoldInv, WithinHold
    <2>3. t < j.since + PendingTTL
      BY <2>2
    <2> QED
      BY <2>1, <2>3 DEF ReservedAt, Live
  <1> QED
    BY <1>1, <1>2 DEF HeldKeys

\* Pruning, and storing a record under a key nobody holds, keep held records.
LEMMA PruneKeepsHeld ==
    ASSUME HandlersFinish, TypeOK, HoldInv, NEW t \in Int, t <= clock,
           \/ entries' = PrunedEntries(t)
           \/ \E k, e : k \notin HeldKeys /\ entries' = Put(PrunedEntries(t), k, e)
    PROVE  \A l \in HeldKeys : KeyKept(l)
  <1> SUFFICES ASSUME NEW l \in HeldKeys PROVE KeyKept(l)
    OBVIOUS
  <1>1. l \in Live(t)
    BY HeldLive
  <1>2. CASE entries' = PrunedEntries(t)
    BY <1>1, <1>2 DEF KeyKept, PrunedEntries
  <1>3. ASSUME NEW k, NEW e, k \notin HeldKeys,
               entries' = Put(PrunedEntries(t), k, e)
        PROVE  KeyKept(l)
    BY <1>1, <1>3 DEF KeyKept, PrunedEntries, Put
  <1> QED
    BY <1>2, <1>3

\* A step that starts no owner and keeps the records of those that remain.
LEMMA HoldQuiet ==
    ASSUME TypeOK, HoldInv, clock' = clock, jobs' \subseteq jobs,
           \A s \in Sessions : HoldFrame(s),
           \A s \in Sessions : Holds(s)' => KeyKept(KeyOf(s)),
           \A j \in jobs' : KeyKept(j.key)
    PROVE  HoldInv'
  <1> USE TimesAssumption
  <1>1. \A s \in Sessions : Holds(s)' => KeyOf(s)' = KeyOf(s)
    BY DEF HoldFrame, KeyOf
  <1>2. WithinHold'
    <2>1. \A s \in Sessions : work'[s].pc # "idle" =>
             work'[s].at <= clock /\ clock <= work'[s].at + HoldLimit
      BY DEF HoldFrame, HoldInv, WithinHold, TypeOK
    <2> QED
      BY <2>1 DEF HoldInv, WithinHold
  <1>3. HeldReserved'
    <2>1. \A s \in Sessions : Holds(s)' => ReservedAt(KeyOf(s), work[s].at)'
      BY <1>1 DEF HoldInv, HeldReserved, HoldFrame, ReservedAt, KeyKept
    <2>2. \A s \in Sessions : Executing(s)' =>
            /\ entries'[KeyOf(s)'].wake.ticket = work'[s].ticket
            /\ entries'[KeyOf(s)'].wake.attempt = work'[s].attempt
      <3> SUFFICES ASSUME NEW s \in Sessions, Executing(s)'
                   PROVE  /\ entries'[KeyOf(s)'].wake.ticket = work'[s].ticket
                          /\ entries'[KeyOf(s)'].wake.attempt = work'[s].attempt
        OBVIOUS
      <3>1. Holds(s)'
        BY DEF Executing, Holds
      <3>2. Executing(s)
        BY <3>1 DEF HoldFrame
      <3> QED
        BY <1>1, <3>1, <3>2 DEF HoldInv, HeldReserved, HoldFrame, KeyKept
    <2>3. \A j \in jobs' : ReservedAt(j.key, j.since)' /\ entries'[j.key].wake.attempt = 0
      BY DEF HoldInv, HeldReserved, ReservedAt, KeyKept
    <2>4. \A s \in Sessions : Holds(s)' /\ ~Executing(s)' =>
             entries'[KeyOf(s)'].wake.attempt = 0
      BY <1>1 DEF HoldInv, HeldReserved, HoldFrame, KeyKept
    <2> QED
      BY <2>1, <2>2, <2>3, <2>4 DEF HeldReserved
  <1>4. HeldOnce'
    BY <1>1 DEF HoldInv, HeldOnce, HoldFrame
  <1> QED
    BY <1>2, <1>3, <1>4 DEF HoldInv

\* A session takes an operation nobody holds and reserves its record.
LEMMA HoldSession ==
    ASSUME TypeOK, HoldInv, clock' = clock, jobs' = jobs,
           NEW s \in Sessions, ~Holds(s),
           work'[s].at <= clock /\ clock <= work'[s].at + HoldLimit,
           \A r \in Sessions \ {s} : work'[r] = work[r],
           KeyOf(s)' \notin HeldKeys,
           ReservedAt(KeyOf(s), work[s].at)',
           Executing(s)' =>
              /\ entries'[KeyOf(s)'].wake.ticket = work'[s].ticket
              /\ entries'[KeyOf(s)'].wake.attempt = work'[s].attempt,
           ~Executing(s)' => entries'[KeyOf(s)'].wake.attempt = 0,
           \A l \in HeldKeys : KeyKept(l)
    PROVE  HoldInv'
  <1>1. \A r \in Sessions \ {s} :
           /\ Holds(r)' = Holds(r)
           /\ Executing(r)' = Executing(r)
           /\ KeyOf(r)' = KeyOf(r)
    BY DEF Holds, KeyOf, Executing
  <1>2. \A r \in Sessions \ {s} :
           Holds(r) => KeyOf(r) \in HeldKeys /\ KeyKept(KeyOf(r))
    BY DEF HeldKeys
  <1>3. \A j \in jobs : j.key \in HeldKeys /\ KeyKept(j.key)
    BY DEF HeldKeys
  <1>4. WithinHold'
    BY DEF HoldInv, WithinHold
  <1>5. HeldReserved'
    <2>1. ASSUME NEW r \in Sessions, Holds(r)'
          PROVE  ReservedAt(KeyOf(r), work[r].at)'
      <3>1. CASE r = s
        BY <3>1
      <3>2. CASE r # s
        BY <1>1, <1>2, <2>1, <3>2
           DEF HoldInv, HeldReserved, ReservedAt, KeyKept
      <3> QED
        BY <3>1, <3>2
    <2>2. ASSUME NEW r \in Sessions, Executing(r)'
          PROVE  /\ entries'[KeyOf(r)'].wake.ticket = work'[r].ticket
                 /\ entries'[KeyOf(r)'].wake.attempt = work'[r].attempt
      <3>1. CASE r = s
        BY <2>2, <3>1
      <3>2. CASE r # s
        <4>1. Executing(r) /\ Holds(r)
          BY <1>1, <2>2, <3>2 DEF Executing, Holds
        <4> QED
          BY <1>1, <1>2, <3>2, <4>1 DEF HoldInv, HeldReserved, KeyKept
      <3> QED
        BY <3>1, <3>2
    <2>3. \A j \in jobs' : ReservedAt(j.key, j.since)' /\ entries'[j.key].wake.attempt = 0
      BY <1>3 DEF HoldInv, HeldReserved, ReservedAt, KeyKept
    <2>4. ASSUME NEW r \in Sessions, Holds(r)', ~Executing(r)'
          PROVE  entries'[KeyOf(r)'].wake.attempt = 0
      <3>1. CASE r = s
        BY <2>4, <3>1
      <3>2. CASE r # s
        BY <1>1, <1>2, <2>4, <3>2 DEF HoldInv, HeldReserved, KeyKept
      <3> QED
        BY <3>1, <3>2
    <2> QED
      BY <2>1, <2>2, <2>3, <2>4 DEF HeldReserved
  <1>6. HeldOnce'
    BY <1>1, <1>2, <1>3 DEF HoldInv, HeldOnce
  <1> QED
    BY <1>4, <1>5, <1>6 DEF HoldInv

\* A status job takes an operation nobody holds and reserves its record.
LEMMA HoldJob ==
    ASSUME TypeOK, HoldInv, clock' = clock, work' = work,
           NEW job \in Job, jobs' = jobs \cup {job}, job.since = clock,
           job.key \notin HeldKeys,
           ReservedAt(job.key, job.since)',
           entries'[job.key].wake.attempt = 0,
           \A l \in HeldKeys : KeyKept(l)
    PROVE  HoldInv'
  <1> USE TimesAssumption
  <1>1. \A r \in Sessions :
           /\ Holds(r)' = Holds(r)
           /\ Executing(r)' = Executing(r)
           /\ KeyOf(r)' = KeyOf(r)
           /\ Holds(r) => KeyOf(r) \in HeldKeys /\ KeyKept(KeyOf(r))
           /\ Executing(r) => Holds(r)
    BY DEF Holds, KeyOf, Executing, HeldKeys
  <1>2. \A j \in jobs : j.key \in HeldKeys /\ KeyKept(j.key)
    BY DEF HeldKeys
  <1>3. WithinHold'
    <2>1. job.since <= clock /\ clock <= job.since + HoldLimit
      BY DEF TypeOK
    <2> QED
      BY <2>1 DEF HoldInv, WithinHold
  <1>4. HeldReserved'
    BY <1>1, <1>2 DEF HoldInv, HeldReserved, ReservedAt, KeyKept
  <1>5. HeldOnce'
    BY <1>1, <1>2 DEF HoldInv, HeldOnce
  <1> QED
    BY <1>3, <1>4, <1>5 DEF HoldInv

\* A session that becomes idle, or waits for the ledger, owns nothing.
LEMMA HoldIdle ==
    ASSUME TypeOK, NEW s \in Sessions, NEW w, work' = [work EXCEPT ![s] = w],
           w.pc = "idle" \/ (w.pc = "begin" /\ w.at = clock)
    PROVE  /\ \A r \in Sessions : HoldFrame(r)
           /\ ~Holds(s)'
           /\ \A r \in Sessions : Holds(r)' => r # s /\ Holds(r)
  <1>1. work'[s] = w /\ \A r \in Sessions \ {s} : work'[r] = work[r]
    BY DEF TypeOK
  <1> QED
    BY <1>1 DEF HoldFrame, Holds, Executing

\* Completing or dropping the record of one owner leaves the others' alone.
LEMMA CompleteKeepsOthers ==
    ASSUME TypeOK, NEW k, NEW r, CompleteKey(k, r), NEW l \in DOMAIN entries, l # k
    PROVE  KeyKept(l)
  BY DEF CompleteKey, KeyKept

LEMMA HeldFacts ==
    ASSUME HoldInv
    PROVE  /\ \A s \in Sessions : Holds(s) =>
                 KeyOf(s) \in HeldKeys /\ KeyOf(s) \in DOMAIN entries
           /\ \A j \in jobs : j.key \in HeldKeys /\ j.key \in DOMAIN entries
           /\ \A s \in Sessions : Executing(s) => Holds(s)
  BY DEF HoldInv, HeldReserved, ReservedAt, HeldKeys, Executing, Holds

LEMMA HoldWakeStep ==
    ASSUME HandlersFinish, TypeOK, HoldInv, NEW s \in Sessions, WakeStep(s)
    PROVE  HoldInv'
  <1> USE KeyTypes, ConstantRecords, HeldFacts
  <1>0. /\ clock \in Int /\ work[s] \in Work
        /\ work[s].pc # "idle" => work[s].at \in Int /\ work[s].at <= clock
                                 /\ clock <= work[s].at + HoldLimit
    BY DEF TypeOK, HoldInv, WithinHold
  <1>1. CASE ReceiveWake(s)
    <2>1. PICK o \in WakeOps, hs \in (SUBSET Hosts) \ {{}},
               w \in {<<1, 0>>} \cup ({2} \X (1..issued)) :
             /\ w[1] = 1 => MayDraw
             /\ work' = [work EXCEPT ![s] =
                        [Idle EXCEPT !.pc = "begin", !.op = o, !.hosts = hs,
                                     !.attempt = w[1], !.ticket = w[2],
                                     !.at = clock]]
      BY <1>1 DEF ReceiveWake
    <2> DEFINE v == [Idle EXCEPT !.pc = "begin", !.op = o, !.hosts = hs,
                                 !.attempt = w[1], !.ticket = w[2], !.at = clock]
    <2>2. v.pc = "begin" /\ v.at = clock
      BY DEF Idle
    <2>3. work' = [work EXCEPT ![s] = v]
      BY <2>1
    <2> HIDE DEF v
    <2>4. /\ \A r \in Sessions : HoldFrame(r)
          /\ \A r \in Sessions : Holds(r)' => Holds(r)
      BY <2>2, <2>3, HoldIdle
    <2>5. entries' = entries /\ jobs' = jobs /\ clock' = clock
      BY <1>1 DEF ReceiveWake, ledgerVars
    <2> QED
      BY <2>4, <2>5, HoldQuiet DEF KeyKept
  <1>2. CASE Begin1New(s)
    <2> DEFINE t == work[s].at
               x == issued + 1
               k == KeyOf(s)
               w == [attempt |-> 1, ticket |-> x, ticket_expires |-> t + RetryTTL,
                     ticket_used |-> FALSE]
               e == ReservedEntry(WakeDigest(s), w, t)
    <2>1. /\ entries' = Put(PrunedEntries(t), k, e)
          /\ clock' = clock /\ jobs' = jobs
          /\ work[s].pc = "begin" /\ work[s].attempt = 1
          /\ k \notin Live(t)
      BY <1>2 DEF Begin1New
    <2>2. /\ work'[s].pc = "reserve" /\ work'[s].ticket = x /\ work'[s].at = t
          /\ work'[s].attempt = 1 /\ KeyOf(s)' = k
          /\ \A r \in Sessions \ {s} : work'[r] = work[r]
      BY <1>2, <2>1 DEF Begin1New, TypeOK, Work, KeyOf
    <2>3. /\ e.pending /\ e.expires = t + PendingTTL
          /\ e.wake.ticket = x /\ e.wake.attempt = 1
      BY DEF ReservedEntry
    <2> HIDE DEF e, w
    <2>4. k \notin HeldKeys
      BY <1>0, <2>1, HeldLive
    <2>5. \A l \in HeldKeys : KeyKept(l)
      BY <1>0, <2>1, <2>4, PruneKeepsHeld
    <2>6. k \in DOMAIN entries' /\ entries'[k] = e
      BY <2>1 DEF Put
    <2> QED
      BY <1>0, <2>1, <2>2, <2>3, <2>4, <2>5, <2>6, HoldSession
         DEF ReservedAt, Holds, Executing
  <1>3. CASE Begin2New(s)
    <2> DEFINE t == work[s].at
               k == KeyOf(s)
               e == RetriedEntry(entries[k], t)
    <2>1. /\ entries' = Put(PrunedEntries(t), k, e)
          /\ clock' = clock /\ jobs' = jobs
          /\ work[s].pc = "begin" /\ work[s].attempt = 2
          /\ k \in Live(t) /\ ~entries[k].pending
          /\ entries[k].wake.ticket = work[s].ticket
      BY <1>3 DEF Begin2New, CanRetry
    <2>2. /\ work'[s].pc = "reserve" /\ work'[s].ticket = work[s].ticket
          /\ work'[s].at = t /\ work'[s].attempt = 2 /\ KeyOf(s)' = k
          /\ \A r \in Sessions \ {s} : work'[r] = work[r]
      BY <1>3, <2>1 DEF Begin2New, TypeOK, Work, KeyOf
    <2>3. /\ e.pending /\ e.expires = t + PendingTTL
          /\ e.wake.ticket = work[s].ticket /\ e.wake.attempt = 2
      <3>1. entries[k] \in LedgerEntry
        BY <2>1 DEF Live, TypeOK
      <3> QED
        BY <2>1, <3>1 DEF RetriedEntry, LedgerEntry, WakeMeta
    <2> HIDE DEF e
    <2>4. k \notin HeldKeys
      BY <1>0, <2>1, HeldLive
    <2>5. \A l \in HeldKeys : KeyKept(l)
      BY <1>0, <2>1, <2>4, PruneKeepsHeld
    <2>6. k \in DOMAIN entries' /\ entries'[k] = e
      BY <2>1 DEF Put
    <2> QED
      BY <1>0, <2>1, <2>2, <2>3, <2>4, <2>5, <2>6, HoldSession
         DEF ReservedAt, Holds, Executing
  <1>4. CASE RecoverReceipt(s) \/ RefuseWake(s)
    <2>1. /\ work' = [work EXCEPT ![s] = Idle] /\ clock' = clock /\ jobs' = jobs
          /\ work[s].pc = "begin"
      BY <1>4 DEF RecoverReceipt, RefuseWake, AnswerAfterPrune
    <2>2. /\ \A r \in Sessions : HoldFrame(r)
          /\ \A r \in Sessions : Holds(r)' => Holds(r)
      BY <2>1, HoldIdle
    <2>3. \A l \in HeldKeys : KeyKept(l)
      <3>1. CASE RecoverReceipt(s)
        <4>1. ~entries[KeyOf(s)].pending
          BY <3>1 DEF RecoverReceipt, CanRecover
        <4>2. KeyOf(s) \notin HeldKeys
          BY <1>0, <2>1, <4>1, HeldLive
        <4>3. \E e : entries' = Put(PrunedEntries(work[s].at), KeyOf(s), e)
          BY <3>1 DEF RecoverReceipt
        <4> QED
          BY <1>0, <2>1, <4>2, <4>3, PruneKeepsHeld
      <3>2. CASE RefuseWake(s)
        BY <1>0, <2>1, <3>2, PruneKeepsHeld DEF RefuseWake, AnswerAfterPrune
      <3> QED
        BY <1>4, <3>1, <3>2
    <2> QED
      BY <2>1, <2>2, <2>3, HoldQuiet
  <1>5. CASE Reserve(s) \/ Dispatch(s)
    <2>1. /\ entries' = entries /\ jobs' = jobs /\ clock' = clock /\ Executing(s)
      BY <1>5 DEF Reserve, Dispatch, ledgerVars, Executing
    <2>2. PICK w : /\ work' = [work EXCEPT ![s] = w]
                   /\ w.pc \in {"dispatch", "complete"}
                   /\ w.op = work[s].op /\ w.at = work[s].at
                   /\ w.ticket = work[s].ticket /\ w.attempt = work[s].attempt
      <3>1. CASE Reserve(s)
        <4>1. /\ [work[s] EXCEPT !.pc = "complete"].pc = "complete"
              /\ [work[s] EXCEPT !.pc = "dispatch", !.todo = work[s].hosts].pc
                    = "dispatch"
              /\ \A f \in {"op", "at", "ticket", "attempt"} :
                    /\ [work[s] EXCEPT !.pc = "complete"][f] = work[s][f]
                    /\ [work[s] EXCEPT !.pc = "dispatch",
                                        !.todo = work[s].hosts][f] = work[s][f]
          BY <1>0 DEF Work
        <4>2. \/ work' = [work EXCEPT ![s] = [work[s] EXCEPT !.pc = "complete"]]
              \/ work' = [work EXCEPT ![s] =
                            [work[s] EXCEPT !.pc = "dispatch", !.todo = work[s].hosts]]
          BY <3>1 DEF Reserve
        <4> QED
          BY <4>1, <4>2
      <3>2. CASE Dispatch(s)
        <4>1. PICK h \in work[s].todo, sent \in BOOLEAN :
                 work' = [work EXCEPT ![s] = WithResult(work[s], h, sent)]
          BY <3>2 DEF Dispatch
        <4>2. /\ WithResult(work[s], h, sent).pc \in {"dispatch", "complete"}
              /\ \A f \in {"op", "attempt", "ticket", "at", "hosts"} :
                    WithResult(work[s], h, sent)[f] = work[s][f]
          BY <1>0, <3>2, ResultType DEF Dispatch
        <4>3. WITNESS WithResult(work[s], h, sent)
        <4> QED
          BY <4>1, <4>2
      <3> QED
        BY <1>5, <3>1, <3>2
    <2>3. work'[s] = w /\ \A r \in Sessions \ {s} : work'[r] = work[r]
      BY <2>2 DEF TypeOK
    <2>4. \A r \in Sessions : HoldFrame(r)
      BY <2>1, <2>2, <2>3 DEF HoldFrame, Holds, Executing
    <2>5. \A r \in Sessions : Holds(r)' => Holds(r)
      BY <2>4 DEF HoldFrame
    <2> QED
      BY <2>1, <2>4, <2>5, HoldQuiet DEF KeyKept
  <1>6. CASE CancelDispatch(s)
    <2>1. /\ work' = [work EXCEPT ![s] = Idle] /\ clock' = clock
          /\ jobs' \subseteq jobs /\ entries' = entries
      BY <1>6 DEF CancelDispatch, ledgerVars
    <2>2. /\ \A r \in Sessions : HoldFrame(r)
          /\ \A r \in Sessions : Holds(r)' => Holds(r)
      BY <2>1, HoldIdle
    <2> QED
      BY <2>1, <2>2, HoldQuiet DEF KeyKept
  <1>7. CASE CompleteWake(s)
    <2>1. PICK v : CompleteKey(KeyOf(s), v)
      BY <1>7 DEF CompleteWake
    <2>2. /\ work' = [work EXCEPT ![s] = Idle] /\ clock' = clock /\ jobs' = jobs
          /\ Holds(s)
      BY <1>7 DEF CompleteWake, Holds
    <2>3. /\ \A r \in Sessions : HoldFrame(r)
          /\ \A r \in Sessions : Holds(r)' => r # s /\ Holds(r)
      BY <2>2, HoldIdle
    <2>4. \A r \in Sessions : Holds(r)' => KeyKept(KeyOf(r))
      BY <2>1, <2>2, <2>3, CompleteKeepsOthers DEF HoldInv, HeldOnce
    <2>5. \A j \in jobs' : KeyKept(j.key)
      BY <2>1, <2>2, CompleteKeepsOthers DEF HoldInv, HeldOnce
    <2> QED
      BY <2>2, <2>3, <2>4, <2>5, HoldQuiet
  <1> QED
    BY <1>1, <1>2, <1>3, <1>4, <1>5, <1>6, <1>7 DEF WakeStep

LEMMA HoldReadStep ==
    ASSUME HandlersFinish, TypeOK, HoldInv, NEW s \in Sessions, ReadStep(s)
    PROVE  HoldInv'
  <1> USE KeyTypes, ConstantRecords, HeldFacts
  <1>0. clock \in Int /\ clock \in Nat
    BY DEF TypeOK
  <1>1. CASE BeginRead(s)
    <2>1. PICK o \in ReadOps, kind \in {"list", "status"} :
            LET k == <<ClientOf[s], o>>
                d == [kind |-> kind, hosts |-> {}]
                job == [session |-> s, key |-> k, since |-> clock]
                started == [Idle EXCEPT !.op = o, !.at = clock]
            IN  /\ k \notin Live(clock)
                /\ entries' = Put(PrunedEntries(clock), k,
                                  ReservedEntry(d, NoWake, clock))
                /\ \/ /\ work' = [work EXCEPT ![s] = [started EXCEPT !.pc = "list"]]
                      /\ UNCHANGED jobs
                   \/ /\ jobs' = jobs \cup {job}
                      /\ UNCHANGED work
                   \/ /\ work' = [work EXCEPT ![s] = [started EXCEPT !.pc = "drop"]]
                      /\ UNCHANGED jobs
                   \/ /\ jobs' = jobs \ JobsOf(s)
                      /\ UNCHANGED work
      BY <1>1 DEF BeginRead
    <2> DEFINE k == <<ClientOf[s], o>>
               e == ReservedEntry([kind |-> kind, hosts |-> {}], NoWake, clock)
               job == [session |-> s, key |-> k, since |-> clock]
               listing == [[Idle EXCEPT !.op = o, !.at = clock] EXCEPT !.pc = "list"]
               dropping == [[Idle EXCEPT !.op = o, !.at = clock] EXCEPT !.pc = "drop"]
    <2>2. /\ work[s].pc = "idle" /\ clock' = clock
          /\ k \notin Live(clock)
          /\ entries' = Put(PrunedEntries(clock), k, e)
      BY <1>1, <2>1 DEF BeginRead
    <2>3. \/ work' = [work EXCEPT ![s] = listing] /\ jobs' = jobs
          \/ work' = [work EXCEPT ![s] = dropping] /\ jobs' = jobs
          \/ work' = work /\ jobs' = jobs \cup {job}
          \/ work' = work /\ jobs' = jobs \ JobsOf(s)
      BY <2>1
    <2>4. e.pending /\ e.expires = clock + PendingTTL /\ e.wake.attempt = 0
      BY DEF ReservedEntry, NoWake
    <2>5. /\ listing.pc = "list" /\ listing.op = o /\ listing.at = clock
          /\ dropping.pc = "drop" /\ dropping.op = o /\ dropping.at = clock
      BY DEF Idle
    <2>6. k \in Keys /\ job \in Job
      BY <1>0, SetsAssumption DEF Job, Keys
    <2> HIDE DEF e, listing, dropping
    <2>7. k \notin HeldKeys
      BY <1>0, <2>2, HeldLive
    <2>8. \A l \in HeldKeys : KeyKept(l)
      BY <1>0, <2>2, <2>7, PruneKeepsHeld
    <2>9. ReservedAt(k, clock)' /\ entries'[k].wake.attempt = 0
      BY <2>2, <2>4 DEF ReservedAt, Put
    <2>10. CASE jobs' = jobs /\ \E w \in {listing, dropping} :
                   work' = [work EXCEPT ![s] = w]
      <3>1. /\ work'[s].pc \in {"list", "drop"} /\ work'[s].op = o
            /\ work'[s].at = clock
            /\ \A r \in Sessions \ {s} : work'[r] = work[r]
        BY <2>5, <2>10 DEF TypeOK
      <3>2. KeyOf(s)' = k /\ ~Executing(s)' /\ ~Holds(s)
        BY <2>2, <3>1 DEF KeyOf, Executing, Holds
      <3>3. clock <= clock + HoldLimit /\ clock <= clock
        BY <1>0, TimesAssumption
      <3>4. ReservedAt(KeyOf(s), work[s].at)' /\ entries'[KeyOf(s)'].wake.attempt = 0
        BY <2>2, <2>9, <3>1, <3>2
      <3> QED
        BY <2>2, <2>7, <2>8, <2>10, <3>1, <3>2, <3>3, <3>4, HoldSession
    <2>11. CASE work' = work /\ jobs' = jobs \cup {job}
      <3>1. PICK j \in Job : j = job
        BY <2>6
      <3>2. j.key = k /\ j.since = clock
        BY <3>1
      <3>3. ReservedAt(j.key, j.since)' /\ entries'[j.key].wake.attempt = 0
        BY <2>2, <2>9, <3>2
      <3>4. jobs' = jobs \cup {j}
        BY <2>11, <3>1
      <3> QED
        BY <2>2, <2>7, <2>8, <2>11, <3>2, <3>3, <3>4, HoldJob
    <2>12. CASE work' = work /\ jobs' = jobs \ JobsOf(s)
      <3>1. \A r \in Sessions : HoldFrame(r) /\ (Holds(r)' => Holds(r))
        BY <2>12 DEF HoldFrame, Holds, Executing
      <3> QED
        BY <2>2, <2>8, <2>12, <3>1, HoldQuiet
    <2> QED
      BY <2>3, <2>10, <2>11, <2>12
  <1>2. CASE AnswerRead(s)
    <2>1. /\ work' = [work EXCEPT ![s] = Idle] /\ clock' = clock /\ jobs' = jobs
          /\ entries' = PrunedEntries(clock)
      BY <1>2 DEF AnswerRead, AnswerAfterPrune
    <2>2. /\ \A r \in Sessions : HoldFrame(r)
          /\ \A r \in Sessions : Holds(r)' => Holds(r)
      BY <2>1, HoldIdle
    <2>3. \A l \in HeldKeys : KeyKept(l)
      BY <1>0, <2>1, PruneKeepsHeld
    <2> QED
      BY <2>1, <2>2, <2>3, HoldQuiet
  <1>3. CASE CompleteList(s) \/ DropStatus(s)
    <2>1. /\ work' = [work EXCEPT ![s] = Idle] /\ clock' = clock /\ jobs' = jobs
          /\ Holds(s)
      BY <1>3 DEF CompleteList, DropStatus, Holds
    <2>2. \A l \in DOMAIN entries : l # KeyOf(s) => KeyKept(l)
      BY <1>3, CompleteKeepsOthers DEF CompleteList, DropStatus, KeyKept
    <2>3. /\ \A r \in Sessions : HoldFrame(r)
          /\ \A r \in Sessions : Holds(r)' => r # s /\ Holds(r)
      BY <2>1, HoldIdle
    <2>4. \A r \in Sessions : Holds(r)' => KeyKept(KeyOf(r))
      BY <2>1, <2>2, <2>3 DEF HoldInv, HeldOnce
    <2>5. \A j \in jobs' : KeyKept(j.key)
      BY <2>1, <2>2 DEF HoldInv, HeldOnce
    <2> QED
      BY <2>1, <2>3, <2>4, <2>5, HoldQuiet
  <1>4. CASE FinishJob(s) \/ CloseSession(s)
    <2>1. /\ work' = work /\ clock' = clock /\ jobs' \subseteq jobs
      BY <1>4 DEF FinishJob, CloseSession
    <2>2. \A r \in Sessions : HoldFrame(r) /\ (Holds(r)' => Holds(r))
      BY <2>1 DEF HoldFrame, Holds, Executing
    <2>3. /\ \A r \in Sessions : Holds(r) => KeyKept(KeyOf(r))
          /\ \A i \in jobs' : KeyKept(i.key)
      <3>1. CASE entries' = entries
        BY <2>1, <3>1 DEF KeyKept
      <3>2. CASE entries' # entries
        <4>1. PICK j \in jobs : jobs' = jobs \ {j} /\ CompleteKey(j.key, ReadResponse)
          BY <1>4, <3>2 DEF FinishJob, CloseSession, ledgerVars, JobsOf
        <4>2. \A r \in Sessions : Holds(r) => KeyOf(r) # j.key
          BY DEF HoldInv, HeldOnce
        <4>3. \A i \in jobs' : i \in jobs /\ i.key # j.key
          BY <4>1 DEF HoldInv, HeldOnce
        <4> QED
          BY <4>1, <4>2, <4>3, CompleteKeepsOthers
      <3> QED
        BY <3>1, <3>2
    <2> QED
      BY <2>1, <2>2, <2>3, HoldQuiet
  <1> QED
    BY <1>1, <1>2, <1>3, <1>4 DEF ReadStep

\* No step of any session takes away a record that is owned.
LEMMA HoldStep ==
    ASSUME HandlersFinish, TypeOK, HoldInv, [Next]_vars
    PROVE  HoldInv'
  <1>1. CASE \E s \in Sessions : WakeStep(s) \/ ReadStep(s)
    BY <1>1, HoldWakeStep, HoldReadStep
  <1>2. CASE Tick
    <2>1. /\ work' = work /\ jobs' = jobs /\ entries' = entries
          /\ clock \in Nat /\ clock' = clock + 1
          /\ \A s \in Sessions : work[s].pc # "idle" => clock < work[s].at + HoldLimit
          /\ \A j \in jobs : clock < j.since + HoldLimit
      BY <1>2 DEF Tick, ledgerVars, TypeOK
    <2>2. /\ \A s \in Sessions : work[s].at \in Nat
          /\ \A j \in jobs : j.since \in Nat
      BY DEF TypeOK, Work, Job
    <2>3. WithinHold'
      BY <2>1, <2>2, TimesAssumption DEF HoldInv, WithinHold
    <2>4. HeldReserved' /\ HeldOnce'
      BY <2>1 DEF HoldInv, HeldReserved, HeldOnce, ReservedAt, KeyOf, Holds, Executing
    <2> QED
      BY <2>3, <2>4 DEF HoldInv
  <1>3. CASE Restart
    <2>1. \A s \in Sessions : work'[s].pc = "idle" /\ ~Holds(s)' /\ ~Executing(s)'
      BY <1>3, ConstantRecords DEF Restart, Holds, Executing
    <2>2. jobs' = {}
      BY <1>3 DEF Restart
    <2> QED
      BY <2>1, <2>2 DEF HoldInv, WithinHold, HeldReserved, HeldOnce
  <1>4. CASE UNCHANGED vars
    BY <1>4 DEF vars, HoldInv, WithinHold, HeldReserved, HeldOnce, ReservedAt,
                KeyOf, Holds, Executing
  <1> QED
    BY <1>1, <1>2, <1>3, <1>4 DEF Next

LEMMA HoldInit ==
    ASSUME Init
    PROVE  HoldInv
  <1>1. \A s \in Sessions : work[s].pc = "idle" /\ ~Holds(s) /\ ~Executing(s)
    BY ConstantRecords DEF Init, Holds, Executing
  <1>2. jobs = {}
    BY DEF Init
  <1> QED
    BY <1>1, <1>2 DEF HoldInv, WithinHold, HeldReserved, HeldOnce

\* As long as handlers finish before their reservation expires, at most one
\* thread executes an operation, and its record is pending under exactly the
\* handler's ticket and attempt, whatever races the other sessions run.
THEOREM OneHandler ==
    ASSUME HandlersFinish
    PROVE  Spec => []OneHandlerPerOperation
  <1>1. TypeOK /\ HoldInv /\ [Next]_vars => HoldInv'
    BY HoldStep
  <1>2. Init => HoldInv
    BY HoldInit
  <1>3. HoldInv => OneHandlerPerOperation
    BY HeldFacts DEF HoldInv, HeldReserved, HeldOnce, ReservedAt,
                     OneHandlerPerOperation
  <1> QED
    BY <1>1, <1>2, <1>3, TypeCorrect, PTL DEF Spec

-----------------------------------------------------------------------------
(* Every record the ledger stores is sound: its ticket is unspent only      *)
(* before the retry and never outlives it, and a pending one answers        *)
(* nothing.  This needs no timing.                                         *)

\* Field by field, what the ledger stores.
LEMMA EntryFields ==
    ASSUME NEW e \in LedgerEntry, NEW t \in Int, NEW r
    PROVE  /\ LET c == CompletedEntry(e, r, t) IN
              /\ ~c.pending /\ c.response = r /\ c.expires = t + LedgerTTL
              /\ c.wake.attempt = e.wake.attempt /\ c.wake.ticket = e.wake.ticket
              /\ c.wake.ticket_used = e.wake.ticket_used
              /\ e.wake.attempt = 1 /\ ~e.wake.ticket_used =>
                    c.wake.ticket_expires = t + RetryTTL
           /\ LET n == Renewed(e, t) IN
              /\ n.pending = e.pending /\ n.response = e.response
              /\ n.expires = e.expires
              /\ n.wake.attempt = e.wake.attempt /\ n.wake.ticket = e.wake.ticket
              /\ n.wake.ticket_used = e.wake.ticket_used
              /\ n.wake.ticket_expires \in {e.wake.ticket_expires, t + RetryTTL}
           /\ LET d == RetriedEntry(e, t) IN
              /\ d.pending /\ d.response = NoResponse
              /\ d.wake.attempt = 2 /\ d.wake.ticket = e.wake.ticket
  <1> USE DEF LedgerEntry, WakeMeta
  <1>1. LET c == CompletedEntry(e, r, t) IN
              /\ ~c.pending /\ c.response = r /\ c.expires = t + LedgerTTL
              /\ c.wake.attempt = e.wake.attempt /\ c.wake.ticket = e.wake.ticket
              /\ c.wake.ticket_used = e.wake.ticket_used
              /\ e.wake.attempt = 1 /\ ~e.wake.ticket_used =>
                    c.wake.ticket_expires = t + RetryTTL
    BY DEF CompletedEntry
  <1>2. LET n == Renewed(e, t) IN
              /\ n.pending = e.pending /\ n.response = e.response
              /\ n.expires = e.expires
              /\ n.wake.attempt = e.wake.attempt /\ n.wake.ticket = e.wake.ticket
              /\ n.wake.ticket_used = e.wake.ticket_used
              /\ n.wake.ticket_expires \in {e.wake.ticket_expires, t + RetryTTL}
    BY DEF Renewed
  <1>3. LET d == RetriedEntry(e, t) IN
              /\ d.pending /\ d.response = NoResponse
              /\ d.wake.attempt = 2 /\ d.wake.ticket = e.wake.ticket
    BY DEF RetriedEntry
  <1> QED
    BY <1>1, <1>2, <1>3

LEMMA CompletedFields ==
    ASSUME NEW e \in LedgerEntry, NEW t \in Int, NEW r
    PROVE  /\ CompletedEntry(e, r, t).response = r
           /\ CompletedEntry(e, r, t).wake.attempt = e.wake.attempt
           /\ CompletedEntry(e, r, t).wake.ticket = e.wake.ticket
  BY EntryFields

\* Each of the ledger's operations stores a sound record.
LEMMA SoundOps ==
    ASSUME NEW t \in Int
    PROVE  /\ \A d, w : (w.attempt = 1 => ~w.ticket_used
                                         /\ w.ticket_expires = t + RetryTTL)
                 => RecordSound(ReservedEntry(d, w, t))
           /\ \A e \in LedgerEntry : RecordSound(RetriedEntry(e, t))
           /\ \A r : \A e \in LedgerEntry :
                 RecordSound(e) => RecordSound(CompletedEntry(e, r, t))
           /\ \A e \in LedgerEntry : (RecordSound(e) /\ Renewable(e, t))
                 => RecordSound(Renewed(e, t))
  <1> USE TimesAssumption
  <1>1. ASSUME NEW d, NEW w, w.attempt = 1 => ~w.ticket_used
                                            /\ w.ticket_expires = t + RetryTTL
        PROVE  RecordSound(ReservedEntry(d, w, t))
    BY <1>1 DEF RecordSound, ReservedEntry, NoResponse
  <1>2. ASSUME NEW e \in LedgerEntry
        PROVE  RecordSound(RetriedEntry(e, t))
    <2>1. /\ RetriedEntry(e, t).wake.attempt = 2
          /\ RetriedEntry(e, t).response = NoResponse
      BY EntryFields
    <2> QED
      BY <2>1 DEF RecordSound, NoResponse
  <1>3. ASSUME NEW e \in LedgerEntry, NEW r, RecordSound(e)
        PROVE  RecordSound(CompletedEntry(e, r, t))
    BY <1>3, EntryFields DEF RecordSound
  <1>4. ASSUME NEW e \in LedgerEntry, RecordSound(e), Renewable(e, t)
        PROVE  RecordSound(Renewed(e, t))
    <2>1. /\ t + RetryTTL <= e.expires
          /\ e.wake.ticket_expires \in Int /\ e.expires \in Int
      BY <1>4 DEF Renewable, LedgerEntry, WakeMeta
    <2>2. LET n == Renewed(e, t) IN
            /\ n.pending = e.pending /\ n.response = e.response
            /\ n.expires = e.expires /\ n.wake.attempt = e.wake.attempt
            /\ n.wake.ticket_used = e.wake.ticket_used
            /\ n.wake.ticket_expires \in {e.wake.ticket_expires, t + RetryTTL}
      BY EntryFields
    <2> QED
      BY <1>4, <2>1, <2>2 DEF RecordSound
  <1> QED
    BY <1>1, <1>2, <1>3, <1>4

\* Pruning keeps sound records, and so does storing one more.
LEMMA SoundPut ==
    ASSUME RecordsSound, NEW t,
           \/ entries' = PrunedEntries(t)
           \/ \E k, e : RecordSound(e) /\ entries' = Put(PrunedEntries(t), k, e)
    PROVE  RecordsSound'
  BY DEF RecordsSound, PrunedEntries, Live, Put, RecordSound

LEMMA SoundComplete ==
    ASSUME TypeOK, RecordsSound, NEW k, NEW r, CompleteKey(k, r)
    PROVE  RecordsSound'
  <1>1. CASE k \in DOMAIN entries
    <2> DEFINE c == CompletedEntry(entries[k], r, clock)
    <2>1. entries' = [entries EXCEPT ![k] = c]
      BY <1>1 DEF CompleteKey
    <2>2. RecordSound(c)
      BY <1>1, SoundOps DEF TypeOK, RecordsSound
    <2> HIDE DEF c
    <2> QED
      BY <2>1, <2>2 DEF RecordsSound, RecordSound
  <1>2. CASE k \notin DOMAIN entries
    BY <1>2 DEF CompleteKey, RecordsSound, RecordSound
  <1> QED
    BY <1>1, <1>2

LEMMA SoundStep ==
    ASSUME TypeOK, RecordsSound, [Next]_vars
    PROVE  RecordsSound'
  <1> USE KeyTypes
  <1>0. clock \in Int
    BY DEF TypeOK
  <1>1. ASSUME NEW s \in Sessions, WakeStep(s)
        PROVE  RecordsSound'
    <2>1. CASE Begin1New(s)
      <3> DEFINE w == [attempt |-> 1, ticket |-> issued + 1,
                       ticket_expires |-> work[s].at + RetryTTL,
                       ticket_used |-> FALSE]
      <3>1. RecordSound(ReservedEntry(WakeDigest(s), w, work[s].at))
        BY SoundOps
      <3>2. entries' = Put(PrunedEntries(work[s].at), KeyOf(s),
                           ReservedEntry(WakeDigest(s), w, work[s].at))
        BY <2>1 DEF Begin1New
      <3> HIDE DEF w
      <3> QED
        BY <3>1, <3>2, SoundPut
    <2>2. CASE RecoverReceipt(s)
      <3>1. /\ KeyOf(s) \in DOMAIN entries
            /\ Renewable(entries[KeyOf(s)], work[s].at)
            /\ entries' = Put(PrunedEntries(work[s].at), KeyOf(s),
                              Renewed(entries[KeyOf(s)], work[s].at))
        BY <2>2 DEF RecoverReceipt, CanRecover, Live
      <3>2. RecordSound(Renewed(entries[KeyOf(s)], work[s].at))
        BY <3>1, SoundOps DEF EntriesOK, RecordsSound
      <3> QED
        BY <3>1, <3>2, SoundPut
    <2>3. CASE Begin2New(s)
      <3>1. /\ KeyOf(s) \in DOMAIN entries
            /\ entries' = Put(PrunedEntries(work[s].at), KeyOf(s),
                              RetriedEntry(entries[KeyOf(s)], work[s].at))
        BY <2>3 DEF Begin2New, CanRetry, Live
      <3>2. RecordSound(RetriedEntry(entries[KeyOf(s)], work[s].at))
        BY <3>1, SoundOps DEF EntriesOK
      <3> QED
        BY <3>1, <3>2, SoundPut
    <2>4. CASE RefuseWake(s)
      BY <2>4, SoundPut DEF RefuseWake, AnswerAfterPrune
    <2>5. CASE CompleteWake(s)
      BY <2>5, SoundComplete DEF CompleteWake
    <2>6. CASE ReceiveWake(s) \/ Reserve(s) \/ Dispatch(s) \/ CancelDispatch(s)
      BY <2>6 DEF ReceiveWake, Reserve, Dispatch, CancelDispatch, ledgerVars,
                  RecordsSound, RecordSound
    <2> QED
      BY <1>1, <2>1, <2>2, <2>3, <2>4, <2>5, <2>6 DEF WakeStep
  <1>2. ASSUME NEW s \in Sessions, ReadStep(s)
        PROVE  RecordsSound'
    <2>1. CASE BeginRead(s)
      <3>1. PICK k, d : entries' = Put(PrunedEntries(clock), k,
                                       ReservedEntry(d, NoWake, clock))
        BY <2>1 DEF BeginRead
      <3>2. RecordSound(ReservedEntry(d, NoWake, clock))
        BY <1>0, SoundOps DEF NoWake
      <3> QED
        BY <3>1, <3>2, SoundPut
    <2>2. CASE AnswerRead(s)
      BY <2>2, SoundPut DEF AnswerRead, AnswerAfterPrune
    <2>3. CASE CompleteList(s)
      BY <2>3, SoundComplete DEF CompleteList
    <2>4. CASE DropStatus(s)
      BY <2>4 DEF DropStatus, RecordsSound, RecordSound
    <2>5. CASE FinishJob(s)
      <3>1. CASE \E k : CompleteKey(k, ReadResponse)
        BY <3>1, SoundComplete
      <3>2. CASE entries' = entries
        BY <3>2 DEF RecordsSound, RecordSound
      <3> QED
        BY <2>5, <3>1, <3>2 DEF FinishJob
    <2>6. CASE CloseSession(s)
      BY <2>6 DEF CloseSession, ledgerVars, RecordsSound, RecordSound
    <2> QED
      BY <1>2, <2>1, <2>2, <2>3, <2>4, <2>5, <2>6 DEF ReadStep
  <1>3. CASE Tick \/ UNCHANGED vars
    BY <1>3 DEF Tick, vars, ledgerVars, RecordsSound, RecordSound
  <1>4. CASE Restart
    BY <1>4 DEF Restart, RecordsSound
  <1> QED
    BY <1>1, <1>2, <1>3, <1>4 DEF Next

-----------------------------------------------------------------------------
(* LifetimesNested is an invariant.                                        *)

\* A completed wake whose record has not expired, and a step that keeps what
\* a recovery needs of it.
Tombstone(k) ==
    /\ k \in DOMAIN entries
    /\ ~entries[k].pending
    /\ entries[k].response.kind = "executed"
    /\ clock < entries[k].expires
TombKept(k) ==
    /\ k \in DOMAIN entries'
    /\ entries'[k].pending = entries[k].pending
    /\ entries'[k].response = entries[k].response
    /\ entries'[k].expires = entries[k].expires
    /\ entries'[k].wake.attempt = entries[k].wake.attempt

LEMMA TombQuiet ==
    ASSUME TypeOK, TombstoneLives, clock' \in {clock, clock + 1},
           receipt' = receipt,
           \A k \in Keys : Tombstone(k) => TombKept(k)
    PROVE  TombstoneLives'
  <1> SUFFICES ASSUME NEW k \in Keys, receipt[k].attempt # 0,
                      clock' < receipt[k].time + LedgerTTL
               PROVE  /\ k \in DOMAIN entries'
                      /\ ~entries'[k].pending
                      /\ entries'[k].wake.attempt = receipt[k].attempt
                      /\ entries'[k].response.kind = "executed"
                      /\ entries'[k].expires = receipt[k].time + LedgerTTL
    BY DEF TombstoneLives
  <1>1. /\ clock \in Nat /\ receipt[k].time \in Nat
    BY DEF TypeOK, Receipt
  <1>2. clock < receipt[k].time + LedgerTTL
    BY <1>1, TimesAssumption
  <1>3. Tombstone(k) /\ entries[k].wake.attempt = receipt[k].attempt
        /\ entries[k].expires = receipt[k].time + LedgerTTL
    BY <1>1, <1>2, TimesAssumption DEF TombstoneLives, Tombstone
  <1> QED
    BY <1>3 DEF TombKept, Tombstone

\* A new attempt clears the receipt of its operation and of no other.
LEMMA TombBegin ==
    ASSUME TypeOK, TombstoneLives, clock' = clock, NEW l \in Keys,
           receipt' = [receipt EXCEPT ![l] = NoReceipt],
           \A k \in Keys \ {l} : Tombstone(k) => TombKept(k)
    PROVE  TombstoneLives'
  <1> SUFFICES ASSUME NEW k \in Keys, receipt'[k].attempt # 0,
                      clock < receipt'[k].time + LedgerTTL
               PROVE  /\ k \in DOMAIN entries'
                      /\ ~entries'[k].pending
                      /\ entries'[k].wake.attempt = receipt'[k].attempt
                      /\ entries'[k].response.kind = "executed"
                      /\ entries'[k].expires = receipt'[k].time + LedgerTTL
    BY DEF TombstoneLives
  <1>1. k # l /\ receipt'[k] = receipt[k]
    BY DEF TypeOK, NoReceipt
  <1>2. Tombstone(k) /\ entries[k].wake.attempt = receipt[k].attempt
        /\ entries[k].expires = receipt[k].time + LedgerTTL
    BY <1>1 DEF TombstoneLives, Tombstone
  <1> QED
    BY <1>1, <1>2 DEF TombKept, Tombstone

\* Pruning at an instant that has been read keeps every tombstone, and so does
\* storing another record.
LEMMA TombPrune ==
    ASSUME TypeOK, NEW t \in Int, t <= clock, NEW k, Tombstone(k),
           \/ entries' = PrunedEntries(t)
           \/ \E l, e : l # k /\ entries' = Put(PrunedEntries(t), l, e)
    PROVE  TombKept(k)
  <1>1. k \in Live(t)
    BY DEF Tombstone, Live, TypeOK, LedgerEntry
  <1>2. CASE entries' = PrunedEntries(t)
    BY <1>1, <1>2 DEF TombKept, PrunedEntries
  <1>3. ASSUME NEW l, NEW e, l # k, entries' = Put(PrunedEntries(t), l, e)
        PROVE  TombKept(k)
    BY <1>1, <1>3 DEF TombKept, PrunedEntries, Put
  <1> QED
    BY <1>2, <1>3

LEMMA TombComplete ==
    ASSUME NEW l, NEW r, CompleteKey(l, r), NEW k, k # l, Tombstone(k)
    PROVE  TombKept(k)
  BY DEF CompleteKey, Tombstone, TombKept

\* A held record is pending, so it is no tombstone.
LEMMA HeldNotTomb ==
    ASSUME HoldInv, NEW k \in HeldKeys
    PROVE  ~Tombstone(k)
  BY DEF HoldInv, HeldReserved, ReservedAt, HeldKeys, Tombstone

LEMMA TombWakeStep ==
    ASSUME HandlersFinish, TypeOK, HoldInv, TombstoneLives,
           NEW s \in Sessions, WakeStep(s)
    PROVE  TombstoneLives'
  <1> USE KeyTypes, HeldFacts
  <1>0. /\ clock \in Nat /\ clock \in Int
        /\ work[s].pc # "idle" => work[s].at \in Int /\ work[s].at <= clock
    BY DEF TypeOK, HoldInv, WithinHold
  <1>1. CASE Begin1New(s) \/ Begin2New(s)
    <2>1. /\ clock' = clock /\ work[s].pc = "begin"
          /\ receipt' = [receipt EXCEPT ![KeyOf(s)] = NoReceipt]
          /\ \E e : entries' = Put(PrunedEntries(work[s].at), KeyOf(s), e)
      BY <1>1 DEF Begin1New, Begin2New
    <2>2. \A k \in Keys \ {KeyOf(s)} : Tombstone(k) => TombKept(k)
      BY <1>0, <2>1, TombPrune
    <2> QED
      BY <2>1, <2>2, TombBegin
  <1>2. CASE RecoverReceipt(s)
    <2> DEFINE e == Renewed(entries[KeyOf(s)], work[s].at)
    <2>1. /\ clock' = clock /\ receipt' = receipt /\ work[s].pc = "begin"
          /\ KeyOf(s) \in DOMAIN entries
          /\ entries' = Put(PrunedEntries(work[s].at), KeyOf(s), e)
      BY <1>2 DEF RecoverReceipt, CanRecover, Live
    <2>2. TombKept(KeyOf(s))
      <3>1. /\ e.pending = entries[KeyOf(s)].pending
            /\ e.response = entries[KeyOf(s)].response
            /\ e.expires = entries[KeyOf(s)].expires
            /\ e.wake.attempt = entries[KeyOf(s)].wake.attempt
        BY <1>0, <2>1, EntryFields DEF EntriesOK
      <3> HIDE DEF e
      <3>2. KeyOf(s) \in DOMAIN entries' /\ entries'[KeyOf(s)] = e
        BY <2>1 DEF Put
      <3> QED
        BY <3>1, <3>2 DEF TombKept
    <2> HIDE DEF e
    <2>3. \A k \in Keys : Tombstone(k) => TombKept(k)
      BY <1>0, <2>1, <2>2, TombPrune
    <2> QED
      BY <2>1, <2>3, TombQuiet
  <1>3. CASE RefuseWake(s)
    <2>1. /\ clock' = clock /\ receipt' = receipt /\ work[s].pc = "begin"
          /\ entries' = PrunedEntries(work[s].at)
      BY <1>3 DEF RefuseWake, AnswerAfterPrune
    <2>2. \A k \in Keys : Tombstone(k) => TombKept(k)
      BY <1>0, <2>1, TombPrune
    <2> QED
      BY <2>1, <2>2, TombQuiet
  <1>4. CASE ReceiveWake(s) \/ Reserve(s) \/ Dispatch(s) \/ CancelDispatch(s)
    <2>1. clock' = clock /\ receipt' = receipt /\ entries' = entries
      BY <1>4 DEF ReceiveWake, Reserve, Dispatch, CancelDispatch, ledgerVars
    <2> QED
      BY <2>1, TombQuiet DEF Tombstone, TombKept
  <1>5. CASE CompleteWake(s)
    <2> DEFINE k == KeyOf(s)
               r == Executed(work[s].attempt, work[s].ticket, work[s].accepted)
               c == CompletedEntry(entries[k], r, clock)
    <2>1. /\ CompleteKey(k, r) /\ clock' = clock
          /\ receipt' = [receipt EXCEPT ![k] =
                            [attempt |-> work[s].attempt, time |-> clock]]
          /\ Executing(s)
      BY <1>5 DEF CompleteWake, Executing
    <2>2. k \in DOMAIN entries /\ entries[k].wake.attempt = work[s].attempt
          /\ entries[k] \in LedgerEntry
      BY <2>1 DEF HoldInv, HeldReserved, EntriesOK
    <2>3. entries' = [entries EXCEPT ![k] = c]
      BY <2>1, <2>2 DEF CompleteKey
    <2>4. /\ ~c.pending /\ c.response.kind = "executed"
          /\ c.expires = clock + LedgerTTL /\ c.wake.attempt = work[s].attempt
      BY <1>0, <2>2, EntryFields DEF Executed
    <2> HIDE DEF c
    <2>5. \A l \in Keys \ {k} : Tombstone(l) => TombKept(l)
      BY <2>3 DEF Tombstone, TombKept
    <2>6. /\ entries'[k] = c /\ k \in DOMAIN entries'
          /\ receipt'[k] = [attempt |-> work[s].attempt, time |-> clock]
          /\ \A l \in Keys \ {k} : receipt'[l] = receipt[l]
      BY <2>1, <2>2, <2>3 DEF TypeOK
    <2>7. \A l \in Keys \ {k} :
            (receipt[l].attempt # 0 /\ clock < receipt[l].time + LedgerTTL) =>
              /\ l \in DOMAIN entries'
              /\ ~entries'[l].pending
              /\ entries'[l].wake.attempt = receipt[l].attempt
              /\ entries'[l].response.kind = "executed"
              /\ entries'[l].expires = receipt[l].time + LedgerTTL
      BY <2>5 DEF TombstoneLives, Tombstone, TombKept
    <2> QED
      BY <2>1, <2>4, <2>6, <2>7 DEF TombstoneLives
  <1> QED
    BY <1>1, <1>2, <1>3, <1>4, <1>5 DEF WakeStep

LEMMA TombReadStep ==
    ASSUME HandlersFinish, TypeOK, HoldInv, TombstoneLives,
           NEW s \in Sessions, ReadStep(s)
    PROVE  TombstoneLives'
  <1> USE KeyTypes, HeldFacts
  <1>0. clock \in Nat /\ clock \in Int /\ clock <= clock
    BY DEF TypeOK
  <1>1. ASSUME clock' = clock, receipt' = receipt,
               \A k \in Keys : Tombstone(k) => TombKept(k)
        PROVE  TombstoneLives'
    BY <1>1, TombQuiet
  <1>2. /\ clock' = clock /\ receipt' = receipt
    BY DEF ReadStep, BeginRead, AnswerRead, AnswerAfterPrune, CompleteList,
           DropStatus, FinishJob, CloseSession
  <1>3. CASE BeginRead(s)
    <2>1. PICK l, e : l \notin Live(clock) /\ entries' = Put(PrunedEntries(clock), l, e)
      BY <1>3 DEF BeginRead
    <2>2. ~Tombstone(l)
      BY <1>0, <2>1 DEF Tombstone, Live, TypeOK, LedgerEntry
    <2>3. \A k \in Keys : Tombstone(k) => TombKept(k)
      BY <1>0, <2>1, <2>2, TombPrune
    <2> QED
      BY <1>1, <1>2, <2>3
  <1>4. CASE AnswerRead(s)
    BY <1>0, <1>1, <1>2, <1>4, TombPrune DEF AnswerRead, AnswerAfterPrune
  <1>5. CASE CompleteList(s) \/ DropStatus(s)
    <2>1. KeyOf(s) \in HeldKeys
      BY <1>5 DEF CompleteList, DropStatus, Holds
    <2>2. \A k : k # KeyOf(s) /\ Tombstone(k) => TombKept(k)
      BY <1>5, TombComplete DEF CompleteList, DropStatus, Tombstone, TombKept
    <2> QED
      BY <1>1, <1>2, <2>1, <2>2, HeldNotTomb
  <1>6. CASE FinishJob(s) \/ CloseSession(s)
    <2>1. CASE entries' = entries
      BY <1>1, <1>2, <2>1 DEF Tombstone, TombKept
    <2>2. CASE \E j \in jobs : CompleteKey(j.key, ReadResponse)
      BY <1>1, <1>2, <2>2, HeldNotTomb, TombComplete
    <2> QED
      BY <1>6, <2>1, <2>2 DEF FinishJob, CloseSession, ledgerVars, JobsOf
  <1> QED
    BY <1>3, <1>4, <1>5, <1>6 DEF ReadStep

LEMMA TombStep ==
    ASSUME HandlersFinish, TypeOK, HoldInv, TombstoneLives, [Next]_vars
    PROVE  TombstoneLives'
  <1>1. CASE \E s \in Sessions : WakeStep(s) \/ ReadStep(s)
    BY <1>1, TombWakeStep, TombReadStep
  <1>2. CASE Tick \/ UNCHANGED vars
    <2>1. clock' \in {clock, clock + 1} /\ receipt' = receipt /\ entries' = entries
      BY <1>2 DEF Tick, vars, ledgerVars
    <2> QED
      BY <2>1, TombQuiet DEF Tombstone, TombKept
  <1>3. CASE Restart
    BY <1>3 DEF Restart, TombstoneLives, NoReceipt
  <1> QED
    BY <1>1, <1>2, <1>3 DEF Next

\* The receipt of a completed wake is remembered for LEDGER_TTL, and its
\* ticket, however often recoveries renew it, dies no later than its record.
THEOREM LifetimesAreNested ==
    ASSUME HandlersFinish
    PROVE  Spec => []LifetimesNested
  <1>1. Init => HoldInv /\ RecordsSound /\ TombstoneLives
    BY HoldInit DEF Init, RecordsSound, TombstoneLives, NoReceipt
  <1>2. TypeOK /\ HoldInv /\ RecordsSound /\ TombstoneLives /\ [Next]_vars
           => HoldInv' /\ RecordsSound' /\ TombstoneLives'
    BY HoldStep, SoundStep, TombStep
  <1>3. RecordsSound /\ TombstoneLives => LifetimesNested
    BY DEF RecordsSound, RecordSound, LifetimesNested, TicketWithinTombstone
  <1> QED
    BY <1>1, <1>2, <1>3, TypeCorrect, PTL DEF Spec

-----------------------------------------------------------------------------
(* ReceiptTellsTruth is an invariant: what a handler counts is what it      *)
(* sent, and nobody sends under a receipt that is already written.         *)

SentTo(x, a) == {h \in Hosts : packets[<<x, a, h>>] > 0}

\* A step after which session s has counted what it had counted before.
CountFrame(s) ==
    /\ work'[s].pc \in {"begin", "reserve"} => work'[s].accepted = {}
    /\ Executing(s)' => /\ Executing(s)
                        /\ work'[s].accepted = work[s].accepted
                        /\ work'[s].ticket = work[s].ticket
                        /\ work'[s].attempt = work[s].attempt

LEMMA CountQuiet ==
    ASSUME AcceptedSent, packets' = packets, \A s \in Sessions : CountFrame(s)
    PROVE  AcceptedSent'
  BY DEF AcceptedSent, CountFrame

\* A session set to a record that is idle or waits for the ledger.
LEMMA CountIdle ==
    ASSUME TypeOK, AcceptedSent, NEW s \in Sessions, NEW w,
           work' = [work EXCEPT ![s] = w],
           w.pc \in {"idle", "begin", "list", "drop"}, w.accepted = {}
    PROVE  \A r \in Sessions : CountFrame(r)
  BY DEF TypeOK, CountFrame, Executing, AcceptedSent

LEMMA SameWorkCount ==
    ASSUME AcceptedSent, work' = work
    PROVE  \A r \in Sessions : CountFrame(r)
  BY DEF CountFrame, Executing, AcceptedSent

\* A handler that starts an attempt has counted nothing and sent nothing.
LEMMA CountBegin ==
    ASSUME TypeOK, AcceptedSent, DispatchInv', NEW s \in Sessions,
           work[s].pc = "begin",
           work'[s].pc = "reserve", work'[s].accepted = work[s].accepted,
           \A r \in Sessions \ {s} : work'[r] = work[r], packets' = packets
    PROVE  AcceptedSent'
  <1>1. work'[s].accepted = {}
    BY DEF AcceptedSent
  <1>2. \A h \in Hosts : packets'[<<work'[s].ticket, work'[s].attempt, h>>] = 0
    BY DEF DispatchInv, UnsentTodo, Executing
  <1> QED
    BY <1>1, <1>2 DEF AcceptedSent, Executing

\* A host is counted exactly when the packet that was owed to it goes out.
LEMMA CountDispatch ==
    ASSUME TypeOK, DispatchInv, AcceptedSent, NEW s \in Sessions, Dispatch(s)
    PROVE  AcceptedSent'
  <1>1. PICK h \in work[s].todo, sent \in BOOLEAN :
            /\ packets' = IF sent
                          THEN [packets EXCEPT
                                  ![<<work[s].ticket, work[s].attempt, h>>] = @ + 1]
                          ELSE packets
            /\ work' = [work EXCEPT ![s] = WithResult(work[s], h, sent)]
    BY DEF Dispatch
  <1> DEFINE x == work[s].ticket
             a == work[s].attempt
             p == <<x, a, h>>
  <1>2. /\ work[s] \in Work /\ work[s].pc = "dispatch" /\ Executing(s)
    BY DEF Dispatch, TypeOK, Executing
  <1>3. /\ work'[s].ticket = x /\ work'[s].attempt = a
        /\ work'[s].pc \in {"dispatch", "complete"}
        /\ \A r \in Sessions \ {s} : work'[r] = work[r]
    BY <1>1, <1>2, ResultType DEF TypeOK
  <1>4. work'[s].accepted = IF sent THEN work[s].accepted \cup {h} ELSE work[s].accepted
    BY <1>1, <1>2 DEF TypeOK, WithResult, Work
  <1>5. /\ x \in Ticket /\ a \in 1..2 /\ h \in Hosts /\ packets[p] = 0
    BY <1>2, TimesAssumption DEF DispatchInv, UnsentTodo, TypeOK, Work, Ticket
  <1>6. /\ \A y \in Ticket, b \in 1..2, g \in Hosts :
              <<y, b, g>> # p => packets'[<<y, b, g>>] = packets[<<y, b, g>>]
        /\ packets'[p] = IF sent THEN 1 ELSE 0
    BY <1>1, <1>5 DEF TypeOK
  <1>7. work'[s].accepted = {g \in Hosts : packets'[<<x, a, g>>] > 0}
    <2>1. \A g \in Hosts : g # h => packets'[<<x, a, g>>] = packets[<<x, a, g>>]
      BY <1>5, <1>6
    <2>2. work[s].accepted = SentTo(x, a)
      BY <1>2 DEF AcceptedSent, SentTo
    <2> QED
      BY <1>4, <1>5, <1>6, <2>1, <2>2 DEF SentTo
  <1>8. ASSUME NEW r \in Sessions, r # s, Executing(r)'
        PROVE  work'[r].accepted =
                 {g \in Hosts : packets'[<<work'[r].ticket, work'[r].attempt, g>>] > 0}
    <2>1. Executing(r) /\ work'[r] = work[r]
      BY <1>3, <1>8 DEF Executing
    <2>2. work[r].ticket \in Ticket /\ work[r].attempt \in 1..2
      BY <2>1, TimesAssumption DEF DispatchInv, UnsentTodo, TypeOK, Ticket
    <2>3. work[r].ticket # x \/ work[r].attempt # a
      BY <1>2, <1>8, <2>1 DEF DispatchInv, DistinctHandlers
    <2>4. \A g \in Hosts : packets'[<<work[r].ticket, work[r].attempt, g>>]
                            = packets[<<work[r].ticket, work[r].attempt, g>>]
      BY <1>6, <2>2, <2>3
    <2> QED
      BY <2>1, <2>4 DEF AcceptedSent
  <1>9. \A r \in Sessions :
           work'[r].pc \in {"begin", "reserve"} => work'[r].accepted = {}
    BY <1>3 DEF AcceptedSent
  <1> QED
    BY <1>3, <1>7, <1>8, <1>9 DEF AcceptedSent, SentTo

LEMMA CountStep ==
    ASSUME TypeOK, DispatchInv, DispatchInv', AcceptedSent, [Next]_vars
    PROVE  AcceptedSent'
  <1> USE KeyTypes
  <1>0. Idle.pc = "idle" /\ Idle.accepted = {}
    BY DEF Idle
  <1>1. ASSUME NEW s \in Sessions, WakeStep(s)
        PROVE  AcceptedSent'
    <2>1. CASE ReceiveWake(s)
      <3>1. PICK o \in WakeOps, hs \in (SUBSET Hosts) \ {{}},
                 w \in {<<1, 0>>} \cup ({2} \X (1..issued)) :
              /\ w[1] = 1 => MayDraw
              /\ work' = [work EXCEPT ![s] =
                        [Idle EXCEPT !.pc = "begin", !.op = o, !.hosts = hs,
                                     !.attempt = w[1], !.ticket = w[2],
                                     !.at = clock]]
        BY <2>1 DEF ReceiveWake
      <3> DEFINE v == [Idle EXCEPT !.pc = "begin", !.op = o, !.hosts = hs,
                                   !.attempt = w[1], !.ticket = w[2], !.at = clock]
      <3>2. v.pc = "begin" /\ v.accepted = {}
        BY DEF Idle
      <3>3. work' = [work EXCEPT ![s] = v]
        BY <3>1
      <3> HIDE DEF v
      <3> QED
        BY <2>1, <3>2, <3>3, CountIdle, CountQuiet DEF ReceiveWake
    <2>2. CASE Begin1New(s) \/ Begin2New(s)
      <3>1. PICK w : /\ work' = [work EXCEPT ![s] = w]
                     /\ w.pc = "reserve" /\ w.accepted = work[s].accepted
        <4>1. CASE Begin1New(s)
          <5> DEFINE v == [work[s] EXCEPT !.pc = "reserve", !.ticket = issued + 1]
          <5>1. v.pc = "reserve" /\ v.accepted = work[s].accepted
            BY DEF Work
          <5>2. work' = [work EXCEPT ![s] = v]
            BY <4>1 DEF Begin1New
          <5> QED
            BY <5>1, <5>2
        <4>2. CASE Begin2New(s)
          <5> DEFINE v == [work[s] EXCEPT !.pc = "reserve"]
          <5>1. v.pc = "reserve" /\ v.accepted = work[s].accepted
            BY DEF Work
          <5>2. work' = [work EXCEPT ![s] = v]
            BY <4>2 DEF Begin2New
          <5> QED
            BY <5>1, <5>2
        <4> QED
          BY <2>2, <4>1, <4>2
      <3>2. work[s].pc = "begin" /\ packets' = packets
        BY <2>2 DEF Begin1New, Begin2New
      <3>3. /\ work'[s].pc = "reserve" /\ work'[s].accepted = work[s].accepted
            /\ \A r \in Sessions \ {s} : work'[r] = work[r]
        BY <3>1 DEF TypeOK
      <3> QED
        BY <3>2, <3>3, CountBegin
    <2>3. CASE RecoverReceipt(s) \/ RefuseWake(s) \/ CancelDispatch(s) \/ CompleteWake(s)
      <3>1. work' = [work EXCEPT ![s] = Idle] /\ packets' = packets
        BY <2>3 DEF RecoverReceipt, RefuseWake, AnswerAfterPrune, CancelDispatch,
                    CompleteWake
      <3> QED
        BY <1>0, <3>1, CountIdle, CountQuiet
    <2>4. CASE Reserve(s)
      <3> DEFINE c == [work[s] EXCEPT !.pc = "complete"]
                 d == [work[s] EXCEPT !.pc = "dispatch", !.todo = work[s].hosts]
      <3>1. /\ work' = [work EXCEPT ![s] = c] \/ work' = [work EXCEPT ![s] = d]
            /\ work[s].pc = "reserve" /\ packets' = packets
        BY <2>4 DEF Reserve
      <3>2. \A v \in {c, d} : /\ v.pc \in {"complete", "dispatch"}
                              /\ v.ticket = work[s].ticket
                              /\ v.attempt = work[s].attempt
                              /\ v.accepted = work[s].accepted
        BY DEF Work
      <3> HIDE DEF c, d
      <3>3. \A r \in Sessions : CountFrame(r)
        BY <3>1, <3>2 DEF TypeOK, CountFrame, Executing, AcceptedSent
      <3> QED
        BY <3>1, <3>3, CountQuiet
    <2>5. CASE Dispatch(s)
      BY <2>5, CountDispatch
    <2> QED
      BY <1>1, <2>1, <2>2, <2>3, <2>4, <2>5 DEF WakeStep
  <1>2. ASSUME NEW s \in Sessions, ReadStep(s)
        PROVE  AcceptedSent'
    <2>1. PICK w : /\ work' = work \/ work' = [work EXCEPT ![s] = w]
                   /\ w.pc \in {"idle", "list", "drop"} /\ w.accepted = {}
      <3>1. CASE BeginRead(s)
        <4>1. PICK o :
                \/ work' = work
                \/ work' = [work EXCEPT ![s] =
                      [[Idle EXCEPT !.op = o, !.at = clock] EXCEPT !.pc = "list"]]
                \/ work' = [work EXCEPT ![s] =
                      [[Idle EXCEPT !.op = o, !.at = clock] EXCEPT !.pc = "drop"]]
          BY <3>1 DEF BeginRead
        <4>2. \A q \in {"list", "drop"} :
                LET v == [[Idle EXCEPT !.op = o, !.at = clock] EXCEPT !.pc = q]
                IN  v.pc = q /\ v.accepted = {}
          BY DEF Idle
        <4> QED
          BY <1>0, <4>1, <4>2
      <3>2. CASE ~BeginRead(s)
        <4>1. work' = work \/ work' = [work EXCEPT ![s] = Idle]
          BY <1>2, <3>2 DEF ReadStep, AnswerRead, AnswerAfterPrune, CompleteList,
                            DropStatus, FinishJob, CloseSession
        <4> QED
          BY <1>0, <4>1
      <3> QED
        BY <3>1, <3>2
    <2>2. packets' = packets
      BY <1>2 DEF ReadStep, BeginRead, AnswerRead, AnswerAfterPrune, CompleteList,
                  DropStatus, FinishJob, CloseSession
    <2> QED
      BY <2>1, <2>2, CountIdle, SameWorkCount, CountQuiet
  <1>3. CASE Tick \/ UNCHANGED vars
    BY <1>3, SameWorkCount, CountQuiet DEF Tick, vars
  <1>4. CASE Restart
    <2>1. \A r \in Sessions : work'[r] = Idle
      BY <1>4 DEF Restart
    <2>2. \A r \in Sessions : CountFrame(r)
      BY <1>0, <2>1 DEF CountFrame, Executing
    <2> QED
      BY <1>4, <2>2, CountQuiet DEF Restart
  <1> QED
    BY <1>1, <1>2, <1>3, <1>4 DEF Next

\* Every receipt in the ledger is of an attempt and true.
TruthInv ==
    \A k \in DOMAIN entries :
        LET r == entries[k].response IN
        r.kind = "executed" =>
            /\ r.attempt \in 1..2
            /\ r.ticket = entries[k].wake.ticket
            /\ r.attempt = entries[k].wake.attempt
            /\ r.accepted = SentTo(r.ticket, r.attempt)

\* A step that writes no receipt and sends nothing.
ReceiptsFrame ==
    \A k \in DOMAIN entries' : entries'[k].response.kind = "executed" =>
        /\ k \in DOMAIN entries
        /\ entries'[k].response = entries[k].response
        /\ entries'[k].wake.ticket = entries[k].wake.ticket
        /\ entries'[k].wake.attempt = entries[k].wake.attempt

LEMMA TruthQuiet ==
    ASSUME TruthInv, packets' = packets, ReceiptsFrame
    PROVE  TruthInv'
  BY DEF TruthInv, ReceiptsFrame, SentTo

LEMMA ReceiptsPut ==
    ASSUME NEW t,
           \/ entries' = PrunedEntries(t)
           \/ \E k, e : /\ entries' = Put(PrunedEntries(t), k, e)
                        /\ e.response.kind = "none"
    PROVE  ReceiptsFrame
  BY DEF ReceiptsFrame, PrunedEntries, Live, Put

LEMMA ReceiptsRead ==
    ASSUME TypeOK, NEW k, CompleteKey(k, ReadResponse)
    PROVE  ReceiptsFrame
  <1>1. CASE k \in DOMAIN entries
    <2> DEFINE c == CompletedEntry(entries[k], ReadResponse, clock)
    <2>1. entries' = [entries EXCEPT ![k] = c]
      BY <1>1 DEF CompleteKey
    <2>2. c.response.kind = "read"
      BY <1>1, EntryFields DEF TypeOK, ReadResponse, NoResponse
    <2> HIDE DEF c
    <2> QED
      BY <2>1, <2>2 DEF ReceiptsFrame
  <1>2. CASE k \notin DOMAIN entries
    BY <1>2 DEF CompleteKey, ReceiptsFrame
  <1> QED
    BY <1>1, <1>2

\* The handler that sends is not the one whose receipt is in the ledger.
LEMMA TruthDispatch ==
    ASSUME TypeOK, HoldInv, DispatchInv, RecordsSound, TruthInv,
           NEW s \in Sessions, Dispatch(s)
    PROVE  TruthInv'
  <1> DEFINE x == work[s].ticket
             a == work[s].attempt
  <1>1. PICK h \in work[s].todo : packets' \in
            {packets, [packets EXCEPT ![<<x, a, h>>] = @ + 1]}
    BY DEF Dispatch
  <1>2. /\ Executing(s) /\ entries' = entries
        /\ x \in Nat /\ a \in 1..2
        /\ KeyOf(s) \in DOMAIN entries
        /\ entries[KeyOf(s)].pending
        /\ entries[KeyOf(s)].wake.ticket = x /\ entries[KeyOf(s)].wake.attempt = a
    BY HeldFacts DEF Dispatch, Executing, ledgerVars, HoldInv, HeldReserved, ReservedAt,
           DispatchInv, UnsentTodo, TypeOK, Work
  <1> SUFFICES ASSUME NEW k \in DOMAIN entries,
                      entries[k].response.kind = "executed"
               PROVE  LET r == entries[k].response IN
                      SentTo(r.ticket, r.attempt)' = SentTo(r.ticket, r.attempt)
    BY <1>2 DEF TruthInv
  <1> DEFINE r == entries[k].response
  <1>3. /\ r.attempt \in 1..2 /\ r.ticket = entries[k].wake.ticket
        /\ r.attempt = entries[k].wake.attempt
    BY DEF TruthInv
  <1>4. r.ticket \in Ticket
    BY <1>3, TimesAssumption DEF TypeOK, Ticket
  <1>5. <<r.ticket, r.attempt>> # <<x, a>>
    <2>1. k # KeyOf(s)
      BY <1>2 DEF RecordsSound, RecordSound
    <2> QED
      BY <1>2, <1>3, <2>1 DEF DispatchInv, TicketsUnique
  <1>6. \A g \in Hosts : packets'[<<r.ticket, r.attempt, g>>]
                           = packets[<<r.ticket, r.attempt, g>>]
    BY <1>1, <1>3, <1>4, <1>5 DEF TypeOK
  <1> QED
    BY <1>2, <1>6 DEF SentTo

\* The receipt a handler writes lists what it has sent.
LEMMA TruthComplete ==
    ASSUME TypeOK, HoldInv, DispatchInv, AcceptedSent, TruthInv,
           NEW s \in Sessions, CompleteWake(s)
    PROVE  TruthInv'
  <1> DEFINE k == KeyOf(s)
             r == Executed(work[s].attempt, work[s].ticket, work[s].accepted)
             c == CompletedEntry(entries[k], r, clock)
  <1>1. CompleteKey(k, r) /\ packets' = packets /\ Executing(s)
    BY DEF CompleteWake, Executing
  <1>2. /\ k \in DOMAIN entries /\ entries[k] \in LedgerEntry /\ clock \in Int
        /\ entries[k].wake.ticket = work[s].ticket
        /\ entries[k].wake.attempt = work[s].attempt
        /\ work[s].attempt \in 1..2
        /\ work[s].accepted = SentTo(work[s].ticket, work[s].attempt)
    BY <1>1, HeldFacts DEF HoldInv, HeldReserved, TypeOK, AcceptedSent, SentTo,
       DispatchInv, UnsentTodo
  <1>3. /\ r.attempt = work[s].attempt /\ r.ticket = work[s].ticket
        /\ r.accepted = work[s].accepted
    BY DEF Executed
  <1>4. entries' = [entries EXCEPT ![k] = c]
    BY <1>1, <1>2 DEF CompleteKey
  <1>5. /\ c.response = r /\ c.wake.ticket = work[s].ticket
        /\ c.wake.attempt = work[s].attempt
    <2> HIDE DEF r, k
    <2> QED
      BY <1>2, CompletedFields
  <1> HIDE DEF c, r
  <1>6. \A y, b : SentTo(y, b)' = SentTo(y, b)
    BY <1>1 DEF SentTo
  <1> QED
    BY <1>2, <1>3, <1>4, <1>5, <1>6 DEF TruthInv

LEMMA TruthStep ==
    ASSUME TypeOK, HoldInv, DispatchInv, RecordsSound, AcceptedSent, TruthInv,
           [Next]_vars
    PROVE  TruthInv'
  <1> USE KeyTypes
  <1>1. ASSUME NEW s \in Sessions, WakeStep(s)
        PROVE  TruthInv'
    <2>1. CASE Begin1New(s)
      <3>1. PICK d, w : entries' = Put(PrunedEntries(work[s].at), KeyOf(s),
                                       ReservedEntry(d, w, work[s].at))
        BY <2>1 DEF Begin1New
      <3>2. ReservedEntry(d, w, work[s].at).response.kind = "none"
        BY DEF ReservedEntry, NoResponse
      <3> QED
        BY <2>1, <3>1, <3>2, ReceiptsPut, TruthQuiet DEF Begin1New
    <2>2. CASE Begin2New(s)
      <3> DEFINE e == RetriedEntry(entries[KeyOf(s)], work[s].at)
      <3>1. /\ entries' = Put(PrunedEntries(work[s].at), KeyOf(s), e)
            /\ KeyOf(s) \in DOMAIN entries
        BY <2>2 DEF Begin2New, CanRetry, Live
      <3>2. e.response.kind = "none"
        BY <3>1, EntryFields DEF EntriesOK, NoResponse
      <3> HIDE DEF e
      <3> QED
        BY <2>2, <3>1, <3>2, ReceiptsPut, TruthQuiet DEF Begin2New
    <2>3. CASE RecoverReceipt(s)
      <3> DEFINE e == Renewed(entries[KeyOf(s)], work[s].at)
      <3>1. /\ entries' = Put(PrunedEntries(work[s].at), KeyOf(s), e)
            /\ KeyOf(s) \in DOMAIN entries
        BY <2>3 DEF RecoverReceipt, CanRecover, Live
      <3>2. /\ e.response = entries[KeyOf(s)].response
            /\ e.wake.ticket = entries[KeyOf(s)].wake.ticket
            /\ e.wake.attempt = entries[KeyOf(s)].wake.attempt
        BY <3>1, EntryFields DEF EntriesOK
      <3> HIDE DEF e
      <3>3. ReceiptsFrame
        BY <3>1, <3>2 DEF ReceiptsFrame, PrunedEntries, Live, Put
      <3> QED
        BY <2>3, <3>3, TruthQuiet DEF RecoverReceipt
    <2>4. CASE RefuseWake(s)
      BY <2>4, ReceiptsPut, TruthQuiet DEF RefuseWake, AnswerAfterPrune
    <2>5. CASE ReceiveWake(s) \/ Reserve(s) \/ CancelDispatch(s)
      BY <2>5, TruthQuiet DEF ReceiveWake, Reserve, CancelDispatch, ledgerVars,
                              ReceiptsFrame
    <2>6. CASE Dispatch(s)
      BY <2>6, TruthDispatch
    <2>7. CASE CompleteWake(s)
      BY <2>7, TruthComplete
    <2> QED
      BY <1>1, <2>1, <2>2, <2>3, <2>4, <2>5, <2>6, <2>7 DEF WakeStep
  <1>2. ASSUME NEW s \in Sessions, ReadStep(s)
        PROVE  TruthInv'
    <2>1. packets' = packets
      BY <1>2 DEF ReadStep, BeginRead, AnswerRead, AnswerAfterPrune, CompleteList,
                  DropStatus, FinishJob, CloseSession
    <2>2. CASE BeginRead(s)
      <3>1. PICK k, d : entries' = Put(PrunedEntries(clock), k,
                                       ReservedEntry(d, NoWake, clock))
        BY <2>2 DEF BeginRead
      <3>2. ReservedEntry(d, NoWake, clock).response.kind = "none"
        BY DEF ReservedEntry, NoResponse
      <3> QED
        BY <2>1, <3>1, <3>2, ReceiptsPut, TruthQuiet
    <2>3. CASE AnswerRead(s)
      BY <2>1, <2>3, ReceiptsPut, TruthQuiet DEF AnswerRead, AnswerAfterPrune
    <2>4. CASE CompleteList(s)
      BY <2>1, <2>4, ReceiptsRead, TruthQuiet DEF CompleteList
    <2>5. CASE DropStatus(s) \/ CloseSession(s)
      BY <2>1, <2>5, TruthQuiet DEF DropStatus, CloseSession, ledgerVars, ReceiptsFrame
    <2>6. CASE FinishJob(s)
      <3>1. CASE entries' = entries
        BY <2>1, <3>1, TruthQuiet DEF ReceiptsFrame
      <3>2. CASE \E k : CompleteKey(k, ReadResponse)
        BY <2>1, <3>2, ReceiptsRead, TruthQuiet
      <3> QED
        BY <2>6, <3>1, <3>2 DEF FinishJob
    <2> QED
      BY <1>2, <2>2, <2>3, <2>4, <2>5, <2>6 DEF ReadStep
  <1>3. CASE Tick \/ UNCHANGED vars
    BY <1>3, TruthQuiet DEF Tick, vars, ledgerVars, ReceiptsFrame
  <1>4. CASE Restart
    BY <1>4 DEF Restart, TruthInv
  <1> QED
    BY <1>1, <1>2, <1>3, <1>4 DEF Next

\* Of all that holds while handlers finish in time, the inductive whole.
WakeInv ==
    /\ HoldInv
    /\ DispatchInv
    /\ RecordsSound
    /\ TombstoneLives
    /\ AcceptedSent
    /\ TruthInv

LEMMA WakeInvariant ==
    ASSUME HandlersFinish
    PROVE  Spec => [](TypeOK /\ WakeInv)
  <1>1. Init => WakeInv
    <2> SUFFICES ASSUME Init PROVE WakeInv
      OBVIOUS
    <2>1. /\ DOMAIN entries = {}
          /\ \A s \in Sessions : work[s].pc = "idle" /\ ~Executing(s)
      BY ConstantRecords DEF Init, Executing
    <2>2. \A k \in Keys : receipt[k].attempt = 0
      BY DEF Init, NoReceipt
    <2>3. DispatchInv
      BY DispatchInit
    <2> QED
      BY <2>1, <2>2, <2>3, HoldInit
         DEF WakeInv, RecordsSound, TombstoneLives, AcceptedSent, TruthInv
  <1>2. TypeOK /\ WakeInv /\ [Next]_vars => WakeInv'
    BY HoldStep, DispatchStep, SoundStep, TombStep, CountStep, TruthStep DEF WakeInv
  <1> QED
    BY <1>1, <1>2, TypeCorrect, PTL DEF Spec

\* A receipt replayed to a client carries the ticket and attempt of its record
\* and accepts exactly the hosts that were sent a packet in that attempt.
THEOREM ReceiptsTrue ==
    ASSUME HandlersFinish
    PROVE  Spec => []ReceiptTellsTruth
  <1>1. WakeInv => ReceiptTellsTruth
    BY DEF WakeInv, TruthInv, SentTo, ReceiptTellsTruth
  <1> QED
    BY <1>1, WakeInvariant, PTL

-----------------------------------------------------------------------------
(* The ledger implements WakeContract.  The phase of a ticket is read off   *)
(* the handlers and the records; of each step it is shown which ticket      *)
(* moves, and that the others stay where they are or are forgotten.        *)

Finished == {"done1", "done2"}
Stays(t) ==
    \/ PhaseOf(t)' = PhaseOf(t)
    \/ PhaseOf(t) \in Finished /\ PhaseOf(t)' = "dead"

\* If every ticket keeps its phase or is forgotten, and no packet is sent, the
\* contract stutters or crashes.
LEMMA ContractQuiet ==
    ASSUME packets' = packets, \A t \in Ticket : Stays(t)
    PROVE  [Contract!Next]_(Contract!vars)
  <1> DEFINE ph == [t \in Ticket |-> PhaseOf(t)]
  <1>1. CASE \A t \in Ticket : PhaseOf(t)' = PhaseOf(t)
    <2>1. ph' = ph
      BY <1>1
    <2> QED
      BY <2>1 DEF Contract!vars
  <1>2. ASSUME NEW t \in Ticket, PhaseOf(t)' # PhaseOf(t)
        PROVE  Contract!Next
    <2> DEFINE gone == {x \in Ticket : x # t /\ PhaseOf(x)' # PhaseOf(x)}
    <2>1. PhaseOf(t) \in Finished /\ PhaseOf(t)' = "dead"
      BY <1>2 DEF Stays
    <2>2. \A x \in Ticket : ph[x] = PhaseOf(x)
      OBVIOUS
    <2>3. gone \in SUBSET (Contract!Forgettable \ {t})
      BY DEF Contract!Forgettable, Stays, Finished
    <2>4. ph' = [x \in Ticket |-> IF x = t THEN "dead"
                                  ELSE IF x \in gone THEN "dead" ELSE ph[x]]
      BY <2>1 DEF Stays
    <2> HIDE DEF gone
    <2>5. Contract!Moves(t, "done1", "dead") \/ Contract!Moves(t, "done2", "dead")
      BY <2>1, <2>2, <2>3, <2>4 DEF Contract!Moves, Finished
    <2>6. Contract!Forget(t)
      BY <2>5 DEF Contract!Forget
    <2> QED
      BY <2>6 DEF Contract!Next
  <1> QED
    BY <1>1, <1>2

LEMMA ContractMove ==
    ASSUME NEW t \in Ticket, NEW from, NEW to, packets' = packets,
           PhaseOf(t) = from, PhaseOf(t)' = to,
           \A x \in Ticket \ {t} : Stays(x)
    PROVE  Contract!Moves(t, from, to)
  <1> DEFINE ph == [x \in Ticket |-> PhaseOf(x)]
             gone == {x \in Ticket : x # t /\ PhaseOf(x)' # PhaseOf(x)}
  <1>1. gone \in SUBSET (Contract!Forgettable \ {t})
    BY DEF Contract!Forgettable, Stays, Finished
  <1>2. ph' = [x \in Ticket |-> IF x = t THEN to
                                ELSE IF x \in gone THEN "dead" ELSE ph[x]]
    BY DEF Stays
  <1>3. ph[t] = from
    OBVIOUS
  <1> HIDE DEF gone
  <1> QED
    BY <1>1, <1>2, <1>3 DEF Contract!Moves

\* Who runs, which records are done, and which tickets are drawn decide the
\* phase: a step that for this ticket keeps the runs, adds no done record and
\* draws nothing leaves it, or forgets it.
RunsFrame(t) == \A a \in {1, 2} : Runs(t, a)' <=> Runs(t, a)
DoneFrame(t) == \A a \in {1, 2} : Done(t, a)' => Done(t, a)

LEMMA DoneFacts ==
    ASSUME TypeOK, TicketsUnique, NEW t
    PROVE  /\ Done(t, 1) \/ Done(t, 2) => ~(t > issued)
           /\ ~(Done(t, 1) /\ Done(t, 2))
  <1>1. Done(t, 1) \/ Done(t, 2) => ~(t > issued)
    <2>1. ASSUME NEW a \in {1, 2}, Done(t, a)
          PROVE  ~(t > issued)
      <3>1. t \in 1..issued /\ issued \in Nat
        BY <2>1 DEF Done, TypeOK
      <3> QED
        BY <3>1
    <2> QED
      BY <2>1, Zenon
  <1>2. ~(Done(t, 1) /\ Done(t, 2))
    BY DEF Done, TicketsUnique
  <1> QED
    BY <1>1, <1>2

LEMMA TicketFrame ==
    ASSUME TypeOK, TicketsUnique, NEW t \in Ticket,
           RunsFrame(t), DoneFrame(t), t > issued' <=> t > issued
    PROVE  Stays(t)
  <1>1. /\ Done(t, 1) \/ Done(t, 2) => ~(t > issued)
        /\ ~(Done(t, 1) /\ Done(t, 2))
    BY DoneFacts, Zenon
  <1>2. /\ Runs(t, 1)' <=> Runs(t, 1)
        /\ Runs(t, 2)' <=> Runs(t, 2)
        /\ Done(t, 1)' => Done(t, 1)
        /\ Done(t, 2)' => Done(t, 2)
    BY Zenon DEF RunsFrame, DoneFrame
  <1> QED
    BY <1>1, <1>2 DEF Stays, PhaseOf, Finished

\* A step after which a session executes exactly what it executed before.
RunFrame(s) ==
    /\ Executing(s)' <=> Executing(s)
    /\ Executing(s) => /\ work'[s].ticket = work[s].ticket
                       /\ work'[s].attempt = work[s].attempt

\* A step that completes no wake.
RecordFrame ==
    \A k \in DOMAIN entries' :
        \/ entries'[k].pending
        \/ entries'[k].wake.attempt = 0
        \/ /\ k \in DOMAIN entries /\ ~entries[k].pending
           /\ entries'[k].wake.ticket = entries[k].wake.ticket
           /\ entries'[k].wake.attempt = entries[k].wake.attempt

LEMMA RecordsDone ==
    ASSUME RecordFrame, NEW t
    PROVE  DoneFrame(t)
  BY DEF RecordFrame, DoneFrame, Done

LEMMA SessionsRun ==
    ASSUME NEW t, \A s \in Sessions : RunFrame(s)
    PROVE  RunsFrame(t)
  BY DEF RunFrame, RunsFrame, Runs

LEMMA OneSessionRuns ==
    ASSUME NEW s \in Sessions, NEW t, \A r \in Sessions \ {s} : RunFrame(r),
           Executing(s) => work[s].ticket # t,
           Executing(s)' => work'[s].ticket # t
    PROVE  RunsFrame(t)
  BY DEF RunFrame, RunsFrame, Runs

\* A step with no part in any wake's progress.
LEMMA RefineQuiet ==
    ASSUME TypeOK, DispatchInv, packets' = packets, issued' = issued,
           \A s \in Sessions : RunFrame(s), RecordFrame
    PROVE  [Contract!Next]_(Contract!vars)
  <1>1. \A t \in Ticket : Stays(t)
    BY TicketFrame, SessionsRun, RecordsDone DEF DispatchInv
  <1> QED
    BY <1>1, ContractQuiet

\* The frames of the steps of one session, and of the ledger's operations.
LEMMA RunIdle ==
    ASSUME TypeOK, NEW s \in Sessions, ~Executing(s), NEW w,
           work' = [work EXCEPT ![s] = w],
           w.pc \in {"idle", "begin", "list", "drop"}
    PROVE  \A r \in Sessions : RunFrame(r)
  BY DEF TypeOK, RunFrame, Executing

LEMMA SameWorkRuns ==
    ASSUME work' = work
    PROVE  \A r \in Sessions : RunFrame(r)
  BY DEF RunFrame, Executing

LEMMA RecordsPut ==
    ASSUME NEW t,
           \/ entries' = PrunedEntries(t)
           \/ \E k, e : /\ entries' = Put(PrunedEntries(t), k, e)
                        /\ \/ e.pending
                           \/ /\ k \in DOMAIN entries /\ ~entries[k].pending
                              /\ e.wake.ticket = entries[k].wake.ticket
                              /\ e.wake.attempt = entries[k].wake.attempt
    PROVE  RecordFrame
  <1>1. CASE entries' = PrunedEntries(t)
    BY <1>1 DEF RecordFrame, PrunedEntries, Live
  <1>2. ASSUME NEW k, NEW e, entries' = Put(PrunedEntries(t), k, e),
               \/ e.pending
               \/ /\ k \in DOMAIN entries /\ ~entries[k].pending
                  /\ e.wake.ticket = entries[k].wake.ticket
                  /\ e.wake.attempt = entries[k].wake.attempt
        PROVE  RecordFrame
    <2>1. /\ entries'[k] = e
          /\ \A l \in DOMAIN entries' \ {k} :
                l \in DOMAIN entries /\ entries'[l] = entries[l]
      BY <1>2 DEF PrunedEntries, Live, Put
    <2> QED
      BY <1>2, <2>1 DEF RecordFrame
  <1> QED
    BY <1>1, <1>2

LEMMA RecordsRead ==
    ASSUME TypeOK, NEW k, CompleteKey(k, ReadResponse),
           k \in DOMAIN entries => entries[k].wake.attempt = 0
    PROVE  RecordFrame
  <1>1. CASE k \in DOMAIN entries
    <2> DEFINE c == CompletedEntry(entries[k], ReadResponse, clock)
    <2>1. entries' = [entries EXCEPT ![k] = c]
      BY <1>1 DEF CompleteKey
    <2>2. c.wake.attempt = 0
      BY <1>1, EntryFields DEF TypeOK
    <2> HIDE DEF c
    <2> QED
      BY <2>1, <2>2 DEF RecordFrame
  <1>2. CASE k \notin DOMAIN entries
    BY <1>2 DEF CompleteKey, RecordFrame
  <1> QED
    BY <1>1, <1>2

LEMMA SameRecords ==
    ASSUME entries' = entries
    PROVE  RecordFrame
  BY DEF RecordFrame

\* The handler of a ticket is its only one, and its record the only one of
\* that ticket.
LEMMA TicketOwner ==
    ASSUME TypeOK, HoldInv, DispatchInv, NEW s \in Sessions, Executing(s)
    PROVE  /\ work[s].ticket \in Ticket /\ work[s].attempt \in {1, 2}
           /\ ~(work[s].ticket > issued)
           /\ PhaseOf(work[s].ticket) = IF work[s].attempt = 1 THEN "run1" ELSE "run2"
           /\ \A r \in Sessions \ {s} :
                 Executing(r) => work[r].ticket # work[s].ticket
           /\ KeyOf(s) \in DOMAIN entries /\ entries[KeyOf(s)].pending
           /\ entries[KeyOf(s)].wake.ticket = work[s].ticket
           /\ entries[KeyOf(s)].wake.attempt = work[s].attempt
           /\ \A k \in DOMAIN entries :
                 (entries[k].wake.attempt # 0 /\ entries[k].wake.ticket = work[s].ticket)
                    => k = KeyOf(s)
  <1> DEFINE x == work[s].ticket
  <1>1. /\ x \in 1..issued /\ issued \in 0..MaxTickets
        /\ work[s].attempt \in 1..2
    BY DEF DispatchInv, UnsentTodo, TypeOK
  <1>2. x \in Ticket /\ work[s].attempt \in {1, 2} /\ ~(x > issued)
    BY <1>1, TimesAssumption DEF Ticket
  <1>3. \A r \in Sessions : Executing(r) =>
          /\ KeyOf(r) \in DOMAIN entries
          /\ entries[KeyOf(r)].pending
          /\ entries[KeyOf(r)].wake.ticket = work[r].ticket
          /\ entries[KeyOf(r)].wake.attempt = work[r].attempt
          /\ work[r].attempt \in 1..2
    BY HeldFacts DEF HoldInv, HeldReserved, ReservedAt, DispatchInv, UnsentTodo
  <1>4. \A k \in DOMAIN entries :
          (entries[k].wake.attempt # 0 /\ entries[k].wake.ticket = x) => k = KeyOf(s)
    BY <1>1, <1>3 DEF DispatchInv, TicketsUnique
  <1>5. \A r \in Sessions \ {s} : Executing(r) => work[r].ticket # x
    BY <1>3, <1>4, HeldFacts DEF HoldInv, HeldOnce
  <1>6. PhaseOf(x) = IF work[s].attempt = 1 THEN "run1" ELSE "run2"
    <2>1. CASE work[s].attempt = 1
      <3>1. Runs(x, 1)
        BY <2>1 DEF Runs
      <3> QED
        BY <2>1, <3>1 DEF PhaseOf
    <2>2. CASE work[s].attempt = 2
      <3>1. ~Runs(x, 1) /\ Runs(x, 2)
        BY <1>5, <2>2 DEF Runs
      <3> QED
        BY <2>2, <3>1 DEF PhaseOf
    <2> QED
      BY <1>2, <2>1, <2>2
  <1> QED
    BY <1>2, <1>3, <1>4, <1>5, <1>6

\* A ticket that is drawn begins a first attempt.
LEMMA RefineBegin1 ==
    ASSUME TypeOK, TypeOK', HoldInv, HoldInv', DispatchInv, DispatchInv',
           NEW s \in Sessions, Begin1New(s)
    PROVE  Contract!Next
  <1> DEFINE x == issued + 1
  <1>1. /\ issued' = x /\ x \in Ticket /\ issued \in Nat
        /\ packets' = packets /\ ~Executing(s)
    BY TimesAssumption DEF Begin1New, TypeOK, Ticket, Executing
  <1>2. /\ work'[s].ticket = x /\ work'[s].attempt = 1 /\ Executing(s)'
        /\ \A r \in Sessions \ {s} : work'[r] = work[r]
    BY DEF Begin1New, TypeOK, Work, Executing
  <1>3. RecordFrame
    <2>1. PICK d, w : entries' = Put(PrunedEntries(work[s].at), KeyOf(s),
                                     ReservedEntry(d, w, work[s].at))
      BY DEF Begin1New
    <2>2. ReservedEntry(d, w, work[s].at).pending
      BY DEF ReservedEntry
    <2> QED
      BY <2>1, <2>2, RecordsPut
  <1>4. PhaseOf(x) = "idle"
    <2>1. /\ \A r \in Sessions : Executing(r) => work[r].ticket # x
          /\ \A k \in DOMAIN entries :
                entries[k].wake.attempt # 0 => entries[k].wake.ticket # x
      BY <1>1 DEF DispatchInv, UnsentTodo, TypeOK
    <2>2. \A a \in {1, 2} : ~Runs(x, a) /\ ~Done(x, a)
      BY <2>1 DEF Runs, Done
    <2>3. x > issued
      BY <1>1
    <2> QED
      BY <2>2, <2>3 DEF PhaseOf
  <1>5. PICK t \in Ticket : t = x
    BY <1>1
  <1>6. PhaseOf(t)' = "run1"
    <2>1. Runs(t, 1)'
      BY <1>2, <1>5 DEF Runs
    <2> QED
      BY <2>1 DEF PhaseOf
  <1>7. \A y \in Ticket \ {t} : Stays(y)
    <2> SUFFICES ASSUME NEW y \in Ticket, y # t PROVE Stays(y)
      OBVIOUS
    <2>1. \A r \in Sessions \ {s} : RunFrame(r)
      BY <1>2 DEF RunFrame, Executing
    <2>2. RunsFrame(y)
      BY <1>1, <1>2, <1>5, <2>1, OneSessionRuns
    <2>3. y > issued' <=> y > issued
      BY <1>1, <1>5 DEF Ticket
    <2> QED
      BY <1>3, <2>2, <2>3, RecordsDone, TicketFrame DEF DispatchInv
  <1>8. Contract!Moves(t, "idle", "run1")
    BY <1>1, <1>4, <1>5, <1>6, <1>7, ContractMove
  <1> QED
    BY <1>8 DEF Contract!Begin, Contract!Next

\* A retry begins the second attempt of a finished first one.
LEMMA RefineBegin2 ==
    ASSUME TypeOK, TypeOK', HoldInv, HoldInv', DispatchInv, DispatchInv',
           NEW s \in Sessions, Begin2New(s)
    PROVE  Contract!Next
  <1> DEFINE k == KeyOf(s)
  <1>1. PICK x : x = work[s].ticket
    OBVIOUS
  <1>2. /\ issued' = issued /\ packets' = packets /\ ~Executing(s)
        /\ k \in DOMAIN entries /\ ~entries[k].pending
        /\ entries[k].wake.attempt = 1 /\ entries[k].wake.ticket = x
        /\ entries' = Put(PrunedEntries(work[s].at), k,
                          RetriedEntry(entries[k], work[s].at))
    BY <1>1 DEF Begin2New, CanRetry, Live, Executing
  <1>3. /\ work'[s].ticket = x /\ work'[s].attempt = 2 /\ Executing(s)'
        /\ \A r \in Sessions \ {s} : work'[r] = work[r]
    BY <1>1 DEF Begin2New, TypeOK, Work, Executing
  <1>4. x \in Ticket
    BY <1>2, TimesAssumption DEF TypeOK, Ticket
  <1>5. RecordFrame
    <2>1. RetriedEntry(entries[k], work[s].at).pending
      BY <1>2, KeyTypes, EntryFields DEF EntriesOK
    <2> QED
      BY <1>2, <2>1, RecordsPut
  <1>6. \A r \in Sessions : Executing(r) => work[r].ticket # x
    BY <1>2, TicketOwner
  <1>7. PhaseOf(x) = "done1"
    <2>1. ~Runs(x, 1) /\ ~Runs(x, 2) /\ Done(x, 1)
      BY <1>2, <1>6 DEF Runs, Done
    <2> QED
      BY <2>1 DEF PhaseOf
  <1>8. PhaseOf(x)' = "run2"
    <2>1. ~Runs(x, 1)' /\ Runs(x, 2)'
      BY <1>3, <1>6 DEF Runs, Executing
    <2> QED
      BY <2>1 DEF PhaseOf
  <1>9. \A y \in Ticket \ {x} : Stays(y)
    <2> SUFFICES ASSUME NEW y \in Ticket, y # x PROVE Stays(y)
      OBVIOUS
    <2>1. \A r \in Sessions \ {s} : RunFrame(r)
      BY <1>3 DEF RunFrame, Executing
    <2>2. RunsFrame(y)
      BY <1>2, <1>3, <2>1, OneSessionRuns
    <2> QED
      BY <1>2, <1>5, <2>2, RecordsDone, TicketFrame DEF DispatchInv
  <1>10. Contract!Moves(x, "done1", "run2")
    BY <1>2, <1>4, <1>7, <1>8, <1>9, ContractMove
  <1> QED
    BY <1>4, <1>10 DEF Contract!Retry, Contract!Next

\* A handler that ends finishes its attempt or abandons it.
LEMMA RefineEnd ==
    ASSUME TypeOK, HoldInv, DispatchInv, DispatchInv',
           NEW s \in Sessions, CompleteWake(s) \/ CancelDispatch(s)
    PROVE  Contract!Next
  <1> DEFINE k == KeyOf(s)
  <1>1. PICK x, a : x = work[s].ticket /\ a = work[s].attempt
    OBVIOUS
  <1>2. /\ issued' = issued /\ packets' = packets /\ Executing(s)
        /\ work' = [work EXCEPT ![s] = Idle]
    BY DEF CompleteWake, CancelDispatch, Executing, ledgerVars
  <1>3. /\ ~Executing(s)'
        /\ \A r \in Sessions \ {s} : work'[r] = work[r]
    BY <1>2, ConstantRecords DEF TypeOK, Executing
  <1>4. /\ x \in Ticket /\ a \in {1, 2} /\ ~(x > issued)
        /\ PhaseOf(x) = IF a = 1 THEN "run1" ELSE "run2"
        /\ \A r \in Sessions \ {s} : Executing(r) => work[r].ticket # x
        /\ k \in DOMAIN entries /\ entries[k].pending
        /\ entries[k].wake.ticket = x /\ entries[k].wake.attempt = a
        /\ \A l \in DOMAIN entries :
              (entries[l].wake.attempt # 0 /\ entries[l].wake.ticket = x) => l = k
    BY <1>1, <1>2, TicketOwner
  <1>5. ~Runs(x, 1)' /\ ~Runs(x, 2)'
    BY <1>3, <1>4 DEF Runs, Executing
  <1>6. \A r \in Sessions \ {s} : RunFrame(r)
    BY <1>3 DEF RunFrame, Executing
  <1>7. \A y \in Ticket \ {x} : RunsFrame(y)
    BY <1>1, <1>3, <1>6, OneSessionRuns
  <1>8. CASE CancelDispatch(s)
    <2>1. entries' = entries
      BY <1>8 DEF CancelDispatch, ledgerVars
    <2>2. ~Done(x, 1)' /\ ~Done(x, 2)'
      BY <1>4, <2>1 DEF Done
    <2>3. PhaseOf(x)' = "dead"
      BY <1>2, <1>4, <1>5, <2>2 DEF PhaseOf
    <2>4. \A y \in Ticket \ {x} : Stays(y)
      BY <1>2, <1>7, <2>1, SameRecords, RecordsDone, TicketFrame DEF DispatchInv
    <2>5. Contract!Moves(x, IF a = 1 THEN "run1" ELSE "run2", "dead")
      BY <1>2, <1>4, <2>3, <2>4, ContractMove
    <2> QED
      BY <1>4, <2>5 DEF Contract!Abandon, Contract!Next
  <1>9. CASE CompleteWake(s)
    <2>1. PICK r : CompleteKey(k, r)
      BY <1>9 DEF CompleteWake
    <2> DEFINE c == CompletedEntry(entries[k], r, clock)
    <2>2. entries' = [entries EXCEPT ![k] = c]
      BY <1>4, <2>1 DEF CompleteKey
    <2>3. ~c.pending /\ c.wake.ticket = x /\ c.wake.attempt = a
      BY <1>4, EntryFields DEF TypeOK
    <2> HIDE DEF c
    <2>4. /\ k \in DOMAIN entries' /\ entries'[k] = c /\ DOMAIN entries' = DOMAIN entries
          /\ \A l \in DOMAIN entries \ {k} : entries'[l] = entries[l]
      BY <1>4, <2>2
    <2>5. \A b \in {1, 2} : Done(x, b)' <=> b = a
      BY <1>4, <2>3, <2>4 DEF Done
    <2>6. PhaseOf(x)' = IF a = 1 THEN "done1" ELSE "done2"
      <3>1. CASE a = 1
        <4>1. Done(x, 1)'
          BY <2>5, <3>1
        <4> QED
          BY <1>5, <3>1, <4>1 DEF PhaseOf
      <3>2. CASE a = 2
        <4>1. ~Done(x, 1)' /\ Done(x, 2)'
          BY <2>5, <3>2
        <4> QED
          BY <1>5, <3>2, <4>1 DEF PhaseOf
      <3> QED
        BY <1>4, <3>1, <3>2
    <2>7. \A y \in Ticket \ {x} : DoneFrame(y)
      BY <2>3, <2>4 DEF DoneFrame, Done
    <2>8. \A y \in Ticket \ {x} : Stays(y)
      BY <1>2, <1>7, <2>7, TicketFrame DEF DispatchInv
    <2>9. Contract!Moves(x, IF a = 1 THEN "run1" ELSE "run2",
                            IF a = 1 THEN "done1" ELSE "done2")
      BY <1>2, <1>4, <2>6, <2>8, ContractMove
    <2>10. Contract!Finish(x)
      BY <1>4, <2>9 DEF Contract!Finish
    <2> QED
      BY <1>4, <2>10 DEF Contract!Next
  <1> QED
    BY <1>8, <1>9

\* A packet is one that the contract lets the running attempt send.
LEMMA RefineDispatch ==
    ASSUME TypeOK, HoldInv, DispatchInv, NEW s \in Sessions, Dispatch(s)
    PROVE  [Contract!Next]_(Contract!vars)
  <1>1. PICK h \in work[s].todo, sent \in BOOLEAN :
            /\ packets' = IF sent
                          THEN [packets EXCEPT
                                  ![<<work[s].ticket, work[s].attempt, h>>] = @ + 1]
                          ELSE packets
            /\ work' = [work EXCEPT ![s] = WithResult(work[s], h, sent)]
    BY DEF Dispatch
  <1>2. /\ entries' = entries /\ issued' = issued
        /\ work[s] \in Work /\ Executing(s) /\ work[s].pc = "dispatch"
    BY DEF Dispatch, ledgerVars, Executing, TypeOK
  <1>3. /\ WithResult(work[s], h, sent).pc \in {"dispatch", "complete"}
        /\ WithResult(work[s], h, sent).ticket = work[s].ticket
        /\ WithResult(work[s], h, sent).attempt = work[s].attempt
    BY <1>2, ResultType
  <1>4. \A r \in Sessions : RunFrame(r)
    BY <1>1, <1>2, <1>3 DEF TypeOK, RunFrame, Executing
  <1>5. RecordFrame
    BY <1>2, SameRecords
  <1>6. CASE ~sent
    BY <1>1, <1>2, <1>4, <1>5, <1>6, RefineQuiet
  <1>7. CASE sent
    <2>1. PICK x, a : x = work[s].ticket /\ a = work[s].attempt
      OBVIOUS
    <2>2. /\ x \in Ticket /\ a \in {1, 2} /\ h \in Hosts
          /\ PhaseOf(x) = IF a = 1 THEN "run1" ELSE "run2"
      BY <1>2, <2>1, TicketOwner DEF Work
    <2>3. packets[<<x, a, h>>] = 0
      BY <1>2, <2>1, <2>2 DEF DispatchInv, UnsentTodo
    <2>4. packets' = [packets EXCEPT ![<<x, a, h>>] = 1]
      BY <1>1, <1>7, <2>1, <2>2, <2>3 DEF TypeOK
    <2>5. \A t \in Ticket : PhaseOf(t)' = PhaseOf(t)
      <3> SUFFICES ASSUME NEW t \in Ticket PROVE PhaseOf(t)' = PhaseOf(t)
        OBVIOUS
      <3>1. /\ Runs(t, 1)' <=> Runs(t, 1)
            /\ Runs(t, 2)' <=> Runs(t, 2)
        BY <1>4 DEF Runs, RunFrame
      <3>2. /\ Done(t, 1)' <=> Done(t, 1)
            /\ Done(t, 2)' <=> Done(t, 2)
        BY <1>2 DEF Done
      <3> QED
        BY <1>2, <3>1, <3>2 DEF PhaseOf
    <2>6. [t \in Ticket |-> PhaseOf(t)]' = [t \in Ticket |-> PhaseOf(t)]
      BY <2>5
    <2>7. [t \in Ticket |-> PhaseOf(t)][x] = IF a = 1 THEN "run1" ELSE "run2"
      BY <2>2
    <2>8. Contract!Transmit(x, a, h)
      BY <2>3, <2>4, <2>6, <2>7 DEF Contract!Transmit
    <2> QED
      BY <2>2, <2>8 DEF Contract!Next
  <1> QED
    BY <1>6, <1>7

LEMMA RefineWakeStep ==
    ASSUME TypeOK, TypeOK', HoldInv, HoldInv', DispatchInv, DispatchInv',
           NEW s \in Sessions, WakeStep(s)
    PROVE  [Contract!Next]_(Contract!vars)
  <1> USE KeyTypes
  <1>0. Idle.pc = "idle"
    BY DEF Idle
  <1>1. CASE ReceiveWake(s)
    <2>1. PICK o \in WakeOps, hs \in (SUBSET Hosts) \ {{}},
               w \in {<<1, 0>>} \cup ({2} \X (1..issued)) :
             /\ w[1] = 1 => MayDraw
             /\ work' = [work EXCEPT ![s] =
                        [Idle EXCEPT !.pc = "begin", !.op = o, !.hosts = hs,
                                     !.attempt = w[1], !.ticket = w[2],
                                     !.at = clock]]
      BY <1>1 DEF ReceiveWake
    <2> DEFINE v == [Idle EXCEPT !.pc = "begin", !.op = o, !.hosts = hs,
                                 !.attempt = w[1], !.ticket = w[2], !.at = clock]
    <2>2. v.pc = "begin"
      BY DEF Idle
    <2>3. work' = [work EXCEPT ![s] = v]
      BY <2>1
    <2> HIDE DEF v
    <2>4. ~Executing(s)
      BY <1>1 DEF ReceiveWake, Executing
    <2>5. \A r \in Sessions : RunFrame(r)
      BY <2>2, <2>3, <2>4, RunIdle
    <2> QED
      BY <1>1, <2>5, SameRecords, RefineQuiet DEF ReceiveWake, ledgerVars
  <1>2. CASE Begin1New(s)
    BY <1>2, RefineBegin1
  <1>3. CASE Begin2New(s)
    BY <1>3, RefineBegin2
  <1>4. CASE RecoverReceipt(s) \/ RefuseWake(s)
    <2>1. /\ work' = [work EXCEPT ![s] = Idle] /\ packets' = packets
          /\ issued' = issued /\ ~Executing(s)
      BY <1>4 DEF RecoverReceipt, RefuseWake, AnswerAfterPrune, Executing
    <2>2. RecordFrame
      <3>1. CASE RecoverReceipt(s)
        <4> DEFINE e == Renewed(entries[KeyOf(s)], work[s].at)
        <4>1. /\ entries' = Put(PrunedEntries(work[s].at), KeyOf(s), e)
              /\ KeyOf(s) \in DOMAIN entries /\ ~entries[KeyOf(s)].pending
          BY <3>1 DEF RecoverReceipt, CanRecover, Live
        <4>2. /\ e.wake.ticket = entries[KeyOf(s)].wake.ticket
              /\ e.wake.attempt = entries[KeyOf(s)].wake.attempt
          BY <4>1, EntryFields DEF EntriesOK
        <4> HIDE DEF e
        <4> QED
          BY <4>1, <4>2, RecordsPut
      <3>2. CASE RefuseWake(s)
        BY <3>2, RecordsPut DEF RefuseWake, AnswerAfterPrune
      <3> QED
        BY <1>4, <3>1, <3>2
    <2> QED
      BY <1>0, <2>1, <2>2, RunIdle, RefineQuiet
  <1>5. CASE Reserve(s)
    <2> DEFINE c == [work[s] EXCEPT !.pc = "complete"]
               d == [work[s] EXCEPT !.pc = "dispatch", !.todo = work[s].hosts]
    <2>1. /\ work' = [work EXCEPT ![s] = c] \/ work' = [work EXCEPT ![s] = d]
          /\ work[s].pc = "reserve" /\ packets' = packets
          /\ entries' = entries /\ issued' = issued
      BY <1>5 DEF Reserve, ledgerVars
    <2>2. \A v \in {c, d} : /\ v.pc \in {"complete", "dispatch"}
                            /\ v.ticket = work[s].ticket
                            /\ v.attempt = work[s].attempt
      BY DEF Work
    <2> HIDE DEF c, d
    <2>3. \A r \in Sessions : RunFrame(r)
      BY <2>1, <2>2 DEF TypeOK, RunFrame, Executing
    <2> QED
      BY <2>1, <2>3, SameRecords, RefineQuiet
  <1>6. CASE Dispatch(s)
    BY <1>6, RefineDispatch
  <1>7. CASE CancelDispatch(s) \/ CompleteWake(s)
    BY <1>7, RefineEnd
  <1> QED
    BY <1>1, <1>2, <1>3, <1>4, <1>5, <1>6, <1>7 DEF WakeStep

LEMMA RefineReadStep ==
    ASSUME TypeOK, HoldInv, DispatchInv, NEW s \in Sessions, ReadStep(s)
    PROVE  [Contract!Next]_(Contract!vars)
  <1>1. packets' = packets /\ issued' = issued
    BY DEF ReadStep, BeginRead, AnswerRead, AnswerAfterPrune, CompleteList,
           DropStatus, FinishJob, CloseSession
  <1>2. \A r \in Sessions : RunFrame(r)
    <2>1. PICK w : /\ work' = work \/ (~Executing(s) /\ work' = [work EXCEPT ![s] = w])
                   /\ w.pc \in {"idle", "list", "drop"}
      <3>1. CASE BeginRead(s)
        <4>1. PICK o :
                \/ work' = work
                \/ work' = [work EXCEPT ![s] =
                      [[Idle EXCEPT !.op = o, !.at = clock] EXCEPT !.pc = "list"]]
                \/ work' = [work EXCEPT ![s] =
                      [[Idle EXCEPT !.op = o, !.at = clock] EXCEPT !.pc = "drop"]]
          BY <3>1 DEF BeginRead
        <4>2. \A q \in {"list", "drop"} :
                [[Idle EXCEPT !.op = o, !.at = clock] EXCEPT !.pc = q].pc = q
          BY DEF Idle
        <4>3. ~Executing(s)
          BY <3>1 DEF BeginRead, Executing
        <4> QED
          BY ConstantRecords, <4>1, <4>2, <4>3
      <3>2. CASE ~BeginRead(s)
        <4>1. work' = work \/ (~Executing(s) /\ work' = [work EXCEPT ![s] = Idle])
          BY <3>2 DEF ReadStep, AnswerRead, AnswerAfterPrune, CompleteList,
                      DropStatus, FinishJob, CloseSession, Executing
        <4> QED
          BY ConstantRecords, <4>1
      <3> QED
        BY <3>1, <3>2
    <2> QED
      BY <2>1, RunIdle, SameWorkRuns
  <1>3. RecordFrame
    <2>1. CASE BeginRead(s)
      <3>1. PICK k, d : entries' = Put(PrunedEntries(clock), k,
                                       ReservedEntry(d, NoWake, clock))
        BY <2>1 DEF BeginRead
      <3>2. ReservedEntry(d, NoWake, clock).pending
        BY DEF ReservedEntry
      <3> QED
        BY <3>1, <3>2, RecordsPut
    <2>2. CASE AnswerRead(s)
      BY <2>2, RecordsPut DEF AnswerRead, AnswerAfterPrune
    <2>3. CASE CompleteList(s)
      <3>1. entries[KeyOf(s)].wake.attempt = 0
        BY <2>3 DEF CompleteList, Holds, Executing, HoldInv, HeldReserved
      <3> QED
        BY <2>3, <3>1, RecordsRead DEF CompleteList
    <2>4. CASE DropStatus(s)
      BY <2>4 DEF DropStatus, RecordFrame
    <2>5. CASE FinishJob(s)
      <3>1. CASE entries' = entries
        BY <3>1, SameRecords
      <3>2. CASE \E j \in jobs : CompleteKey(j.key, ReadResponse)
        BY <3>2, RecordsRead DEF HoldInv, HeldReserved
      <3> QED
        BY <2>5, <3>1, <3>2 DEF FinishJob, JobsOf
    <2>6. CASE CloseSession(s)
      BY <2>6, SameRecords DEF CloseSession, ledgerVars
    <2> QED
      BY <2>1, <2>2, <2>3, <2>4, <2>5, <2>6 DEF ReadStep
  <1> QED
    BY <1>1, <1>2, <1>3, RefineQuiet

\* A restart forgets every wake that was drawn.
LEMMA RefineRestart ==
    ASSUME TypeOK, HoldInv, DispatchInv, Restart
    PROVE  Contract!Next
  <1>1. /\ issued' = issued /\ packets' = packets
        /\ DOMAIN entries' = {} /\ \A s \in Sessions : ~Executing(s)'
    BY ConstantRecords DEF Restart, Executing
  <1>2. ASSUME NEW t \in Ticket
        PROVE  PhaseOf(t)' = IF PhaseOf(t) = "idle" THEN "idle" ELSE "dead"
    <2>1. \A a \in {1, 2} : ~Runs(t, a)' /\ ~Done(t, a)'
      BY <1>1 DEF Runs, Done
    <2>2. PhaseOf(t)' = IF t > issued THEN "idle" ELSE "dead"
      BY <1>1, <2>1 DEF PhaseOf
    <2>3. CASE t > issued
      <3>1. ~Done(t, 1) /\ ~Done(t, 2)
        BY <2>3, DoneFacts DEF DispatchInv
      <3>2. \A s \in Sessions : Executing(s) => work[s].ticket # t
        BY <2>3, TicketOwner
      <3>3. ~Runs(t, 1) /\ ~Runs(t, 2)
        BY <3>2 DEF Runs
      <3>4. PhaseOf(t) = "idle"
        BY <2>3, <3>1, <3>3 DEF PhaseOf
      <3> QED
        BY <2>2, <2>3, <3>4
    <2>4. CASE ~(t > issued)
      <3>1. PhaseOf(t) # "idle"
        BY <2>4 DEF PhaseOf
      <3> QED
        BY <2>2, <2>4, <3>1
    <2> QED
      BY <2>3, <2>4
  <1>3. [t \in Ticket |-> PhaseOf(t)]' =
           [t \in Ticket |-> IF [x \in Ticket |-> PhaseOf(x)][t] = "idle"
                             THEN "idle" ELSE "dead"]
    BY <1>2
  <1>4. Contract!Crash
    BY <1>1, <1>3 DEF Contract!Crash
  <1> QED
    BY <1>4 DEF Contract!Next

LEMMA RefineStep ==
    ASSUME TypeOK, TypeOK', WakeInv, WakeInv', [Next]_vars
    PROVE  [Contract!Next]_(Contract!vars)
  <1> USE DEF WakeInv
  <1>1. CASE \E s \in Sessions : WakeStep(s) \/ ReadStep(s)
    BY <1>1, RefineWakeStep, RefineReadStep
  <1>2. CASE Tick \/ UNCHANGED vars
    <2>1. /\ packets' = packets /\ issued' = issued
          /\ work' = work /\ entries' = entries
      BY <1>2 DEF Tick, vars, ledgerVars
    <2> QED
      BY <2>1, SameWorkRuns, SameRecords, RefineQuiet
  <1>3. CASE Restart
    BY <1>3, RefineRestart
  <1> QED
    BY <1>1, <1>2, <1>3 DEF Next

\* The ledger implements the contract of a wake: every step of every session,
\* every expiry and every restart is a step of the contract or none.
THEOREM LedgerImplementsContract ==
    ASSUME HandlersFinish
    PROVE  Spec => ImplementsContract
  <1>1. Init => Contract!Init
    <2> SUFFICES ASSUME Init PROVE Contract!Init
      OBVIOUS
    <2>1. ASSUME NEW t \in Ticket
          PROVE  PhaseOf(t) = "idle"
      <3>1. \A s \in Sessions : ~Executing(s)
        BY ConstantRecords DEF Init, Executing
      <3>2. DOMAIN entries = {} /\ t > issued
        BY TimesAssumption DEF Init, Ticket
      <3>3. \A a \in {1, 2} : ~Runs(t, a) /\ ~Done(t, a)
        BY <3>1, <3>2 DEF Runs, Done
      <3> QED
        BY <3>2, <3>3 DEF PhaseOf
    <2> QED
      BY <2>1 DEF Init, Contract!Init
  <1>2. /\ TypeOK /\ WakeInv /\ (TypeOK /\ WakeInv)' /\ [Next]_vars
           => [Contract!Next]_(Contract!vars)
    BY RefineStep
  <1> QED
    BY <1>1, <1>2, WakeInvariant, PTL DEF Spec, ImplementsContract, Contract!Spec

=============================================================================
