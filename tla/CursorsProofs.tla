---------------------------- MODULE CursorsProofs ----------------------------
(***************************************************************************)
(* Proofs about Cursors for any number of workers and messages, pages of   *)
(* any size, and any assignment of seconds to messages.                    *)
(***************************************************************************)
EXTENDS Cursors, TLAPS

-----------------------------------------------------------------------------
(* The inductive invariant *)

\* Every message up to position n was fetched or left out by design.
Seen(n) == \A m \in Messages : m <= n => m \in fetched \union skipped

\* What a sync starts from, has listed up to, or is about to save covers only
\* messages that were seen: when it is saved nothing unseen is passed,
\* whatever the cursor says by then.
PositionsSeen ==
  \A w \in Workers :
    /\ runs[w].at \in {"ask", "profile"} => Seen(runs[w].from)
    /\ runs[w].at = "save" => Seen(runs[w].to)

\* A sync has messages in its hands only between its answer and its end.
HandsEmpty ==
  \A w \in Workers : runs[w].at \in {"idle", "ask", "list"} => runs[w].todo = {}

IInv == TypeOK /\ NothingPassedUnseen /\ PositionsSeen /\ HandsEmpty /\ KeptWithoutFaults

-----------------------------------------------------------------------------
(* What the providers answer, and runs *)

\* The bounds are natural numbers.
LEMMA Numbers == MaxMessages \in Nat /\ Page \in Nat \ {0}
  BY CursorsAssumptions

\* Every answer is a set of messages that have arrived.
LEMMA AnswersAreMessages ==
  ASSUME TypeOK, NEW m \in NoCursor .. MaxMessages
  PROVE  /\ After(m) \subseteq Messages /\ Newest \subseteq Messages /\ Older \subseteq Messages
         /\ Latest(After(m)) \subseteq After(m) /\ Latest(Newest) \subseteq Newest
  BY DEF After, Newest, Older, Latest

\* A listing and what it leaves out are all that has arrived.
LEMMA ListingCovers ==
  ASSUME TypeOK, NEW m \in Messages, m <= arrived
  PROVE  m \in Newest \union Older
  BY Numbers DEF TypeOK, Messages, Newest, Older

\* The page behind a position reaches from there to its last message.
LEMMA PageCovers ==
  ASSUME TypeOK, NEW from \in NoCursor .. MaxMessages, NEW to \in After(from),
         NEW m \in Messages, m <= to
  PROVE  m <= from \/ m \in After(from)
  BY Numbers DEF TypeOK, Messages, After, NoCursor

\* Runs are records of this shape.
LEMMA RunShape ==
  ASSUME NEW at \in Points, NEW from \in NoCursor .. MaxMessages, NEW to \in 0 .. MaxMessages,
         NEW todo \in SUBSET Messages
  PROVE  LET run == [at |-> at, from |-> from, to |-> to, todo |-> todo] IN
         run \in Run /\ run.at = at /\ run.from = from /\ run.to = to /\ run.todo = todo
  BY DEF Run

-----------------------------------------------------------------------------
(* Steps *)

\* The worker w goes on to `run`: what was seen stays seen, the positions of
\* the run and the cursor are seen, and no message falls out of its hands.
LEMMA RunStep ==
  ASSUME IInv, NEW w \in Workers, NEW run \in Run, Becomes(w, run),
         UNCHANGED <<provider, faulty, arrived>>,
         cursor' \in NoCursor .. MaxMessages, Seen(cursor)',
         fetched \subseteq fetched', fetched' \subseteq Messages,
         skipped \subseteq skipped', skipped' \subseteq Messages,
         ingested \subseteq ingested', ingested' \subseteq Messages,
         run.at \in {"ask", "profile"} =>
           \A m \in Messages : m <= run.from => m \in fetched' \union skipped',
         run.at = "save" => \A m \in Messages : m <= run.to => m \in fetched' \union skipped',
         run.at \in {"idle", "ask", "list"} => run.todo = {},
         ~faulty => /\ fetched' \subseteq fetched \union run.todo
                    /\ runs[w].todo \subseteq run.todo \union ingested'
  PROVE  IInv'
  <1>1. /\ runs \in [Workers -> Run] /\ runs' \in [Workers -> Run] /\ runs'[w] = run
        /\ \A v \in Workers \ {w} : runs'[v] = runs[v]
    BY DEF IInv, TypeOK, Becomes
  <1>2. TypeOK'
    BY <1>1 DEF IInv, TypeOK
  <1>3. NothingPassedUnseen'
    BY DEF NothingPassedUnseen, Seen
  <1>4. PositionsSeen'
    BY <1>1 DEF IInv, PositionsSeen, Seen
  <1>5. HandsEmpty'
    BY <1>1 DEF IInv, HandsEmpty
  <1>6. KeptWithoutFaults'
    <2> SUFFICES ASSUME ~faulty, NEW m \in fetched', m \notin ingested'
                 PROVE  \E v \in Workers : m \in runs'[v].todo
      BY DEF KeptWithoutFaults, InHand
    <2>1. CASE m \in run.todo
      BY <1>1, <2>1
    <2>2. CASE m \notin run.todo
      <3>1. PICK v \in Workers : m \in runs[v].todo
        BY <2>2 DEF IInv, KeptWithoutFaults, InHand
      <3>2. v # w
        BY <2>2, <3>1
      <3> QED BY <1>1, <3>1, <3>2
    <2> QED BY <2>1, <2>2
  <1> QED BY <1>2, <1>3, <1>4, <1>5, <1>6 DEF IInv

\* Nothing has arrived and no sync has begun.
LEMMA InitIInv == Init => IInv
  <1> SUFFICES ASSUME Init PROVE IInv
    OBVIOUS
  <1>1. Resting \in Run
    BY Numbers DEF Resting, Run, Points, NoCursor
  <1>2. TypeOK
    BY <1>1, Numbers DEF Init, TypeOK, NoCursor
  <1>3. NothingPassedUnseen
    BY DEF Init, NothingPassedUnseen, Messages, NoCursor
  <1>4. PositionsSeen /\ HandsEmpty /\ KeptWithoutFaults
    BY DEF Init, PositionsSeen, HandsEmpty, KeptWithoutFaults, Resting
  <1> QED BY <1>2, <1>3, <1>4 DEF IInv

\* The first call of a sync: the cursor is read.
LEMMA StartStep ==
  ASSUME IInv, NEW w \in Workers, Start(w)
  PROVE  IInv'
  <1> DEFINE at == IF provider = "gmail" /\ cursor = NoCursor THEN "list" ELSE "ask"
             run == [at |-> at, from |-> cursor, to |-> 0, todo |-> {}]
  <1>1. TypeOK
    BY DEF IInv
  <1>2. at \in Points /\ at \in {"list", "ask"}
    BY DEF Points
  <1> HIDE DEF at
  <1>3. Becomes(w, run)
    <2> DEFINE begun == [Resting EXCEPT !.at = at]
    <2>0. begun = [at |-> at, from |-> 0, to |-> 0, todo |-> {}]
      BY DEF Resting
    <2> HIDE DEF begun
    <2>1. [Resting EXCEPT !.at = at, !.from = cursor] = run
      <3>1. [begun EXCEPT !.from = cursor] = run
        BY <2>0
      <3> QED BY <3>1 DEF begun
    <2> QED BY <2>1 DEF Start, at
  <1>4. run \in Run /\ run.at = at /\ run.from = cursor /\ run.todo = {}
    BY <1>1, <1>2, Numbers, RunShape DEF TypeOK
  <1> HIDE DEF run
  <1>5. Seen(cursor)
    BY DEF IInv, NothingPassedUnseen, Seen
  <1>6. runs[w].todo = {}
    BY DEF IInv, HandsEmpty, Start
  <1> QED BY <1>1, <1>2, <1>3, <1>4, <1>5, <1>6, RunStep DEF Start, Seen, TypeOK

\* GroupMe's answer.
LEMMA AskGroupMeStep ==
  ASSUME IInv, NEW w \in Workers, AskGroupMe(w)
  PROVE  IInv'
  <1> DEFINE from == runs[w].from
             page == IF from = NoCursor THEN Newest ELSE After(from)
  <1>1. TypeOK /\ from \in NoCursor .. MaxMessages
    BY DEF IInv, TypeOK, Run
  <1>2. page \subseteq Messages /\ Latest(page) \subseteq page /\ Older \subseteq Messages
    BY <1>1, AnswersAreMessages
  <1>3. runs[w].todo = {} /\ runs[w].at = "ask" /\ Seen(from)
    BY DEF IInv, HandsEmpty, PositionsSeen, AskGroupMe
  <1>4. Seen(cursor) /\ cursor \in NoCursor .. MaxMessages
    BY <1>1 DEF IInv, NothingPassedUnseen, Seen, TypeOK
  <1>5. /\ fetched' = fetched \union page
        /\ skipped' = IF from = NoCursor THEN skipped \union Older ELSE skipped
        /\ UNCHANGED <<provider, faulty, arrived, cursor, ingested>>
    BY DEF AskGroupMe
  <1>6. ASSUME NEW to \in page, NEW m \in Messages, m <= to
        PROVE  m \in fetched' \union skipped'
    <2>1. CASE from = NoCursor
      <3>1. to <= arrived /\ to \in Messages
        BY <1>2, <1>6, <2>1 DEF Newest
      <3>2. m <= arrived
        BY <1>1, <1>6, <3>1 DEF TypeOK, Messages
      <3> QED BY <1>1, <1>5, <2>1, <3>2, ListingCovers
    <2>2. CASE from # NoCursor
      <3>1. m <= from \/ m \in After(from)
        BY <1>1, <1>6, <2>2, PageCovers
      <3> QED BY <1>3, <1>5, <2>2, <3>1 DEF Seen
    <2> QED BY <2>1, <2>2
  <1>7. /\ fetched \subseteq fetched' /\ fetched' \subseteq Messages
        /\ skipped \subseteq skipped' /\ skipped' \subseteq Messages
        /\ Seen(cursor)'
    BY <1>1, <1>2, <1>4, <1>5 DEF TypeOK, Seen
  <1>8. CASE page = {}
    <2> DEFINE run == [at |-> "ingest", from |-> 0, to |-> 0, todo |-> {}]
    <2>1. Becomes(w, run)
      BY <1>8 DEF AskGroupMe, Becomes, Resting
    <2>2. run \in Run /\ run.at = "ingest" /\ run.todo = {}
      BY Numbers, RunShape DEF Points, NoCursor
    <2> HIDE DEF run
    <2> QED BY <1>1, <1>3, <1>4, <1>5, <1>7, <1>8, <2>1, <2>2, RunStep DEF TypeOK
  <1>9. CASE page # {}
    <2>1. PICK to \in Latest(page) :
            Becomes(w, [at |-> "save", from |-> 0, to |-> to, todo |-> page])
      BY <1>9 DEF AskGroupMe
    <2> DEFINE run == [at |-> "save", from |-> 0, to |-> to, todo |-> page]
    <2> HIDE DEF page
    <2>2. to \in page /\ to \in 0 .. MaxMessages
      <3>1. to \in page /\ to \in Messages
        BY <1>2
      <3> QED BY <3>1, Numbers DEF Messages
    <2>3. run \in Run /\ run.at = "save" /\ run.to = to /\ run.todo = page
      BY <1>2, <2>2, Numbers, RunShape DEF Points, NoCursor
    <2>4. Becomes(w, run)
      BY <2>1
    <2> HIDE DEF run
    <2> QED BY <1>1, <1>3, <1>4, <1>5, <1>6, <1>7, <2>2, <2>3, <2>4, RunStep DEF TypeOK
  <1> QED BY <1>8, <1>9

\* Gmail's first page of a history.
LEMMA AskGmailStep ==
  ASSUME IInv, NEW w \in Workers, AskGmail(w)
  PROVE  IInv'
  <1> DEFINE from == runs[w].from
             page == After(from)
             later == {m \in Messages : from + Page < m /\ m <= arrived}
             run == [at |-> "save", from |-> 0, to |-> arrived, todo |-> page]
  <1>1. TypeOK /\ from \in NoCursor .. MaxMessages
    BY DEF IInv, TypeOK, Run
  <1>2. page \subseteq Messages
    BY <1>1, AnswersAreMessages
  <1>3. runs[w].todo = {} /\ Seen(from) /\ Seen(cursor)
    BY DEF IInv, HandsEmpty, PositionsSeen, NothingPassedUnseen, Seen, AskGmail
  <1>4. /\ fetched' = fetched \union page /\ skipped' = skipped \union later
        /\ UNCHANGED <<provider, faulty, arrived, cursor, ingested>>
        /\ Becomes(w, run)
    BY DEF AskGmail
  <1>5. ASSUME NEW m \in Messages, m <= arrived
        PROVE  m \in fetched' \union skipped'
    <2>1. m <= from \/ m \in page \/ m \in later
      BY <1>1, <1>5, Numbers DEF TypeOK, After, Messages, NoCursor
    <2> QED BY <1>3, <1>4, <2>1 DEF Seen
  <1>6. run \in Run /\ run.at = "save" /\ run.to = arrived /\ run.todo = page
    BY <1>1, <1>2, Numbers, RunShape DEF TypeOK, Points, NoCursor
  <1> HIDE DEF run, page
  <1>7. /\ fetched \subseteq fetched' /\ fetched' \subseteq Messages
        /\ skipped \subseteq skipped' /\ skipped' \subseteq Messages /\ Seen(cursor)'
    BY <1>1, <1>2, <1>3, <1>4 DEF TypeOK, Seen
  <1> QED BY <1>1, <1>3, <1>4, <1>5, <1>6, <1>7, RunStep DEF TypeOK

\* Gmail is initialized, at once or after its history has expired.
LEMMA ListingSteps ==
  ASSUME IInv, NEW w \in Workers, HistoryExpired(w) \/ ListMailbox(w) \/ GetProfile(w)
  PROVE  IInv'
  <1>1. TypeOK /\ runs[w] \in Run /\ Seen(cursor)
    BY DEF IInv, TypeOK, NothingPassedUnseen, Seen
  <1>2. CASE HistoryExpired(w)
    <2> DEFINE run == [at |-> "list", from |-> 0, to |-> 0, todo |-> {}]
    <2>1. Becomes(w, run) /\ runs[w].at = "ask"
      BY <1>2 DEF HistoryExpired, Resting
    <2>2. run \in Run /\ run.at = "list" /\ run.todo = {}
      BY Numbers, RunShape DEF Points, NoCursor
    <2>3. runs[w].todo = {}
      BY <2>1 DEF IInv, HandsEmpty
    <2> HIDE DEF run
    <2> QED BY <1>1, <1>2, <2>1, <2>2, <2>3, RunStep DEF HistoryExpired, TypeOK, Seen
  <1>3. CASE ListMailbox(w)
    <2> DEFINE run == [at |-> "profile", from |-> arrived, to |-> 0, todo |-> Newest]
    <2>1. Newest \subseteq Messages /\ Older \subseteq Messages
      BY DEF Newest, Older
    <2>2. /\ Becomes(w, run) /\ runs[w].at = "list"
          /\ fetched' = fetched \union Newest /\ skipped' = skipped \union Older
          /\ UNCHANGED <<provider, faulty, arrived, cursor, ingested>>
      BY <1>3 DEF ListMailbox
    <2>3. /\ run \in Run /\ run.at = "profile" /\ run.from = arrived /\ run.todo = Newest
      BY <1>1, <2>1, Numbers, RunShape DEF TypeOK, Points, NoCursor
    <2>4. runs[w].todo = {}
      BY <2>2 DEF IInv, HandsEmpty
    <2> HIDE DEF run
    <2>5. \A m \in Messages : m <= arrived => m \in fetched' \union skipped'
      BY <1>1, <2>2, ListingCovers
    <2>6. /\ fetched \subseteq fetched' /\ fetched' \subseteq Messages
          /\ skipped \subseteq skipped' /\ skipped' \subseteq Messages /\ Seen(cursor)'
      BY <1>1, <2>1, <2>2 DEF TypeOK, Seen
    <2> QED BY <1>1, <2>2, <2>3, <2>4, <2>5, <2>6, RunStep DEF TypeOK
  <1>4. CASE GetProfile(w)
    <2> DEFINE run == [at |-> "save", from |-> 0, to |-> arrived, todo |-> runs[w].todo]
               between == {m \in Messages : runs[w].from < m /\ m <= arrived}
    <2>1. Becomes(w, run)
      <3> DEFINE r == runs[w]
                 first == [r EXCEPT !.at = "save"]
                 second == [first EXCEPT !.from = 0]
      <3> HIDE DEF r
      <3>2. first = [at |-> "save", from |-> r.from, to |-> r.to, todo |-> r.todo]
        BY <1>1 DEF Run, r
      <3> HIDE DEF first
      <3>3. second = [at |-> "save", from |-> 0, to |-> r.to, todo |-> r.todo]
        BY <3>2
      <3> HIDE DEF second
      <3>4. [second EXCEPT !.to = arrived]
              = [at |-> "save", from |-> 0, to |-> arrived, todo |-> r.todo]
        BY <3>3
      <3>1. [runs[w] EXCEPT !.at = "save", !.from = 0, !.to = arrived] = run
        BY <3>4 DEF first, second, r
      <3> QED BY <1>4, <3>1 DEF GetProfile
    <2>2. /\ runs[w].at = "profile" /\ skipped' = skipped \union between
          /\ UNCHANGED <<provider, faulty, arrived, cursor, ingested, fetched>>
      BY <1>4 DEF GetProfile
    <2>3. run \in Run /\ run.at = "save" /\ run.to = arrived /\ run.todo = runs[w].todo
      <3>1. runs[w].todo \in SUBSET Messages
        BY <1>1 DEF Run
      <3> QED BY <1>1, <3>1, Numbers, RunShape DEF TypeOK, Points, NoCursor
    <2> HIDE DEF run
    <2>4. \A m \in Messages : m <= arrived => m \in fetched' \union skipped'
      <3>1. Seen(runs[w].from) /\ runs[w].from \in NoCursor .. MaxMessages
        BY <1>1, <2>2 DEF IInv, PositionsSeen, Run
      <3> QED BY <1>1, <2>2, <3>1, Numbers DEF Seen, Messages, NoCursor, TypeOK
    <2>5. skipped \subseteq skipped' /\ skipped' \subseteq Messages /\ Seen(cursor)'
      BY <1>1, <2>2 DEF TypeOK, Seen
    <2> QED BY <1>1, <2>1, <2>2, <2>3, <2>4, <2>5, RunStep DEF TypeOK
  <1> QED BY <1>2, <1>3, <1>4

\* The cursor is saved, the messages are ingested, the sync ends or fails.
LEMMA EndingSteps ==
  ASSUME IInv, NEW w \in Workers, SaveCursor(w) \/ IngestMessage(w) \/ Finish(w) \/ Fail(w)
  PROVE  IInv'
  <1>1. TypeOK /\ runs[w] \in Run /\ runs[w].todo \in SUBSET Messages /\ Seen(cursor)
    BY DEF IInv, TypeOK, NothingPassedUnseen, Seen, Run
  <1>2. CASE SaveCursor(w)
    <2> DEFINE run == [at |-> "ingest", from |-> runs[w].from, to |-> 0, todo |-> runs[w].todo]
    <2>1. Becomes(w, run)
      <3> DEFINE r == runs[w]
                 first == [r EXCEPT !.at = "ingest"]
      <3> HIDE DEF r
      <3>2. first = [at |-> "ingest", from |-> r.from, to |-> r.to, todo |-> r.todo]
        BY <1>1 DEF Run, r
      <3> HIDE DEF first
      <3>3. [first EXCEPT !.to = 0]
              = [at |-> "ingest", from |-> r.from, to |-> 0, todo |-> r.todo]
        BY <3>2
      <3>1. [runs[w] EXCEPT !.at = "ingest", !.to = 0] = run
        BY <3>3 DEF first, r
      <3> QED BY <1>2, <3>1 DEF SaveCursor
    <2>2. /\ runs[w].at = "save" /\ cursor' = runs[w].to
          /\ UNCHANGED <<provider, faulty, arrived, ingested, fetched, skipped>>
      BY <1>2 DEF SaveCursor
    <2>3. run \in Run /\ run.at = "ingest" /\ run.todo = runs[w].todo
      <3>1. runs[w].from \in NoCursor .. MaxMessages
        BY <1>1 DEF Run
      <3> QED BY <1>1, <3>1, Numbers, RunShape DEF Points
    <2> HIDE DEF run
    <2>4. Seen(cursor)' /\ cursor' \in NoCursor .. MaxMessages
      <3>1. Seen(runs[w].to) /\ runs[w].to \in 0 .. MaxMessages
        BY <1>1, <2>2 DEF IInv, PositionsSeen, Run
      <3> QED BY <2>2, <3>1, Numbers DEF Seen, NoCursor
    <2> QED BY <1>1, <2>1, <2>2, <2>3, <2>4, RunStep DEF TypeOK
  <1>3. CASE IngestMessage(w)
    <2>1. PICK m \in runs[w].todo :
            ingested' = ingested \union {m} /\ Becomes(w, [runs[w] EXCEPT !.todo = @ \ {m}])
      BY <1>3 DEF IngestMessage
    <2> DEFINE run == [runs[w] EXCEPT !.todo = runs[w].todo \ {m}]
    <2>2. /\ run \in Run /\ run.at = "ingest" /\ run.todo = runs[w].todo \ {m}
      BY <1>1, <1>3 DEF Run, IngestMessage
    <2>3. Becomes(w, run) /\ ingested' \subseteq Messages
      BY <1>1, <2>1 DEF TypeOK
    <2> HIDE DEF run
    <2> QED BY <1>1, <1>3, <2>1, <2>2, <2>3, RunStep DEF IngestMessage, TypeOK, Seen
  <1>4. CASE Finish(w) \/ Fail(w)
    <2>1. Resting \in Run /\ Resting.at = "idle" /\ Resting.todo = {}
      BY Numbers DEF Resting, Run, Points, NoCursor
    <2>2. /\ Becomes(w, Resting) /\ (~faulty => runs[w].todo = {})
          /\ UNCHANGED <<provider, faulty, arrived, cursor, ingested, fetched, skipped>>
      BY <1>4 DEF Finish, Fail
    <2> QED BY <1>1, <2>1, <2>2, RunStep DEF TypeOK, Seen
  <1> QED BY <1>2, <1>3, <1>4

\* Every step of the specification keeps the invariant.
LEMMA NextIInv == IInv /\ [Next]_vars => IInv'
  <1> SUFFICES ASSUME IInv, [Next]_vars PROVE IInv'
    OBVIOUS
  <1>1. CASE Arrive
    <2>1. TypeOK'
      BY <1>1, Numbers DEF Arrive, IInv, TypeOK
    <2> QED BY <1>1, <2>1 DEF Arrive, IInv, NothingPassedUnseen, PositionsSeen, Seen, HandsEmpty,
               KeptWithoutFaults, InHand
  <1>2. ASSUME NEW w \in Workers, Step(w) \/ HistoryExpired(w) \/ Fail(w)
        PROVE  IInv'
    BY <1>2, StartStep, AskGroupMeStep, AskGmailStep, ListingSteps, EndingSteps DEF Step
  <1>3. CASE UNCHANGED vars
    BY <1>3 DEF vars, IInv, TypeOK, NothingPassedUnseen, PositionsSeen, Seen, HandsEmpty,
       KeptWithoutFaults, InHand
  <1> QED BY <1>1, <1>2, <1>3 DEF Next

\* The invariant holds always.
LEMMA AlwaysIInv == Spec => []IInv
  BY InitIInv, NextIInv, PTL DEF Spec

-----------------------------------------------------------------------------

\* The state keeps its types: no cursor stands behind the last message.
THEOREM CursorTypes == Spec => []TypeOK
  <1>1. IInv => TypeOK
    BY DEF IInv
  <1> QED BY <1>1, AlwaysIInv, PTL

\* However many syncs of a mailbox or a group overlap, fail and move the
\* cursor back or forth, it passes no message that was neither fetched nor
\* left out by design (synchronize and setConnectorState).
THEOREM CursorsPassNothingUnseen == Spec => []NothingPassedUnseen
  <1>1. IInv => NothingPassedUnseen
    BY DEF IInv
  <1> QED BY <1>1, AlwaysIInv, PTL

\* Though the cursor is saved before the messages are ingested, without
\* failures none that was fetched is lost (the loop of the worker).
THEOREM FetchedMessagesAreKept == Spec => []KeptWithoutFaults
  <1>1. IInv => KeptWithoutFaults
    BY DEF IInv
  <1> QED BY <1>1, AlwaysIInv, PTL
=============================================================================
