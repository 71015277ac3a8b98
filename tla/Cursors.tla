------------------------------- MODULE Cursors -------------------------------
(***************************************************************************)
(* How far a user's Gmail mailbox or GroupMe group has been read: the      *)
(* connector_state row, the syncs that read behind it, move it and hand    *)
(* what they fetched to ingest(), and the messages that keep arriving.     *)
(*                                                                         *)
(* Message m is the m-th to arrive; ids and history ids grow with it.  A   *)
(* sync is run by a worker for a connector.sync job: recurring, asked for  *)
(* by the user, or the retry of a failed one, of one or another of the     *)
(* user's organizations.  All of them share the row, so two may overlap.   *)
(* Instagram and LinkedIn have no cursor: they list the newest posts.      *)
(***************************************************************************)
EXTENDS Integers

CONSTANTS
  Workers,
  MaxMessages,   \* bound on the messages that arrive
  Page,          \* messages in one answer: 100 of a history or a group, 50 of a listing
  SecondOf       \* created_at of a message, in seconds

ASSUME CursorsAssumptions ==
  /\ MaxMessages \in Nat
  /\ Page \in Nat \ {0}
  /\ SecondOf \in [1 .. MaxMessages -> Nat]
  /\ \A m, n \in 1 .. MaxMessages : m <= n => SecondOf[m] <= SecondOf[n]

VARIABLES
  provider,      \* which of the two connectors this is about
  faulty,        \* whether calls fail, workers die and histories expire
  arrived,       \* messages in the mailbox or the group
  cursor,        \* the saved cursor: the message it stands at, 0 before the first
  runs,          \* what each worker's sync is doing
  ingested,      \* messages whose ingest() has returned
  fetched,       \* messages some sync has had in its hands (no variable of the program)
  skipped        \* messages no sync asked for (no variable of the program)

vars == <<provider, faulty, arrived, cursor, runs, ingested, fetched, skipped>>

Messages == 1 .. MaxMessages

NoCursor == -1

Points == {"idle", "ask", "list", "profile", "save", "ingest"}

Run == [at : Points, from : NoCursor .. MaxMessages, to : 0 .. MaxMessages, todo : SUBSET Messages]

Resting == [at |-> "idle", from |-> 0, to |-> 0, todo |-> {}]

Init ==
  /\ provider \in {"gmail", "groupme"}
  /\ faulty \in BOOLEAN
  /\ arrived = 0 /\ cursor = NoCursor
  /\ runs = [w \in Workers |-> Resting]
  /\ ingested = {} /\ fetched = {} /\ skipped = {}

Arrive ==
  /\ arrived < MaxMessages
  /\ arrived' = arrived + 1
  /\ UNCHANGED <<provider, faulty, cursor, runs, ingested, fetched, skipped>>

-----------------------------------------------------------------------------
(* What the providers answer *)

\* GroupMe's after_id and Gmail's history: the page next to position m.
After(m) == {n \in Messages : m < n /\ n <= arrived /\ n <= m + Page}

\* A listing without a position: the newest page.
Newest == {n \in Messages : n <= arrived /\ arrived < n + Page}

Older == {n \in Messages : n + Page <= arrived}

\* The last message in the order of created_at: of those of the same second
\* it depends on the provider's order which one that is.
Latest(S) == {m \in S : \A n \in S : SecondOf[n] <= SecondOf[m]}

-----------------------------------------------------------------------------
(* A sync *)

Becomes(w, run) == runs' = [runs EXCEPT ![w] = run]

\* getConnectorState; Gmail without a cursor is initialized.
Start(w) ==
  /\ runs[w].at = "idle"
  /\ Becomes(w, [Resting EXCEPT !.at = IF provider = "gmail" /\ cursor = NoCursor THEN "list" ELSE "ask",
                                !.from = cursor])
  /\ UNCHANGED <<provider, faulty, arrived, cursor, ingested, fetched, skipped>>

\* Mutant: the position of a group after a sync is that of its newest message.
AskGroupMeToEnd(w) ==
  LET from == runs[w].from
      page == IF from = NoCursor THEN Newest ELSE After(from)
  IN  /\ provider = "groupme" /\ runs[w].at = "ask"
      /\ Becomes(w, [at |-> "save", from |-> 0, to |-> arrived, todo |-> page])
      /\ fetched' = fetched \union page
      /\ skipped' = IF from = NoCursor THEN skipped \union Older ELSE skipped
      /\ UNCHANGED <<provider, faulty, arrived, cursor, ingested>>

\* syncGroup: one page of messages; without any the cursor stays.
AskGroupMe(w) ==
  LET from == runs[w].from
      page == IF from = NoCursor THEN Newest ELSE After(from)
  IN  /\ provider = "groupme" /\ runs[w].at = "ask"
      /\ IF page = {} THEN Becomes(w, [Resting EXCEPT !.at = "ingest"])
         ELSE \E to \in Latest(page) :
                Becomes(w, [at |-> "save", from |-> 0, to |-> to, todo |-> page])
      /\ fetched' = fetched \union page
      /\ skipped' = IF from = NoCursor THEN skipped \union Older ELSE skipped
      /\ UNCHANGED <<provider, faulty, arrived, cursor, ingested>>

\* sync: the first page of the history, message by message, and the
\* mailbox's current historyId, later pages or not.
AskGmail(w) ==
  LET from == runs[w].from IN
  /\ provider = "gmail" /\ runs[w].at = "ask"
  /\ Becomes(w, [at |-> "save", from |-> 0, to |-> arrived, todo |-> After(from)])
  /\ fetched' = fetched \union After(from)
  /\ skipped' = skipped \union {m \in Messages : from + Page < m /\ m <= arrived}
  /\ UNCHANGED <<provider, faulty, arrived, cursor, ingested>>

\* A 404: the history no longer reaches back to the cursor.
HistoryExpired(w) ==
  /\ provider = "gmail" /\ runs[w].at = "ask" /\ faulty
  /\ Becomes(w, [Resting EXCEPT !.at = "list"])
  /\ UNCHANGED <<provider, faulty, arrived, cursor, ingested, fetched, skipped>>

\* initialize: the newest messages are listed and fetched ...
ListMailbox(w) ==
  /\ runs[w].at = "list"
  /\ Becomes(w, [at |-> "profile", from |-> arrived, to |-> 0, todo |-> Newest])
  /\ fetched' = fetched \union Newest
  /\ skipped' = skipped \union Older
  /\ UNCHANGED <<provider, faulty, arrived, cursor, ingested>>

\* ... and then the profile is asked how far the mailbox goes.
GetProfile(w) ==
  /\ runs[w].at = "profile"
  /\ Becomes(w, [runs[w] EXCEPT !.at = "save", !.from = 0, !.to = arrived])
  /\ skipped' = skipped \union {m \in Messages : runs[w].from < m /\ m <= arrived}
  /\ UNCHANGED <<provider, faulty, arrived, cursor, ingested, fetched>>

\* Mutant: the cursor is the position of the message to come.
SaveNextPosition(w) ==
  /\ runs[w].at = "save"
  /\ cursor' = runs[w].to + 1
  /\ Becomes(w, [runs[w] EXCEPT !.at = "ingest", !.to = 0])
  /\ UNCHANGED <<provider, faulty, arrived, ingested, fetched, skipped>>

\* setConnectorState, before anything is ingested
SaveCursor(w) ==
  /\ runs[w].at = "save"
  /\ cursor' = runs[w].to
  /\ Becomes(w, [runs[w] EXCEPT !.at = "ingest", !.to = 0])
  /\ UNCHANGED <<provider, faulty, arrived, ingested, fetched, skipped>>

\* The worker ingests one after the other, here the oldest first; content the
\* store has is a no-op.
IngestMessage(w) ==
  /\ runs[w].at = "ingest"
  /\ \E m \in runs[w].todo :
       /\ \A n \in runs[w].todo : m <= n
       /\ ingested' = ingested \union {m}
       /\ Becomes(w, [runs[w] EXCEPT !.todo = @ \ {m}])
  /\ UNCHANGED <<provider, faulty, arrived, cursor, fetched, skipped>>

\* Mutant: the loop over the sources is not awaited.
FinishUnawaited(w) ==
  /\ runs[w].at = "ingest"
  /\ Becomes(w, Resting)
  /\ UNCHANGED <<provider, faulty, arrived, cursor, ingested, fetched, skipped>>

Finish(w) ==
  /\ runs[w].at = "ingest" /\ runs[w].todo = {}
  /\ Becomes(w, Resting)
  /\ UNCHANGED <<provider, faulty, arrived, cursor, ingested, fetched, skipped>>

\* A call or an ingest() throws, or the worker dies: the job is run again,
\* with what the row says then.
Fail(w) ==
  /\ faulty /\ runs[w].at # "idle"
  /\ Becomes(w, Resting)
  /\ UNCHANGED <<provider, faulty, arrived, cursor, ingested, fetched, skipped>>

-----------------------------------------------------------------------------

Step(w) ==
  \/ Start(w) \/ AskGroupMe(w) \/ AskGmail(w) \/ ListMailbox(w) \/ GetProfile(w)
  \/ SaveCursor(w) \/ IngestMessage(w) \/ Finish(w)

Next ==
  \/ Arrive
  \/ \E w \in Workers : Step(w) \/ HistoryExpired(w) \/ Fail(w)

Spec == Init /\ [][Next]_vars

\* The schedule asks for one sync after the other, and each comes to its end.
FairSpec == Spec /\ \A w \in Workers : WF_vars(Step(w))

-----------------------------------------------------------------------------
(* Properties *)

TypeOK ==
  /\ provider \in {"gmail", "groupme"} /\ faulty \in BOOLEAN
  /\ arrived \in 0 .. MaxMessages /\ cursor \in NoCursor .. MaxMessages
  /\ runs \in [Workers -> Run]
  /\ ingested \subseteq Messages /\ fetched \subseteq Messages /\ skipped \subseteq Messages

InHand == UNION {runs[w].todo : w \in Workers}

\* The cursor passes no message that no sync has fetched, though syncs
\* overlap, fail half-way and move it back: only what a first listing leaves
\* out and, with Gmail, what follows the first page of a history or arrives
\* between the listing and the profile is passed unseen.
NothingPassedUnseen ==
  \A m \in Messages : m <= cursor => m \in fetched \union skipped

\* Saving the cursor before the messages are ingested loses none as long as
\* no sync fails: what was fetched is ingested or in the hands of a sync.
KeptWithoutFaults == ~faulty => fetched \subseteq ingested \union InHand

\* While no sync fails every message is ingested in the end, those passed
\* unseen apart.
Delivered ==
  \A m \in Messages : ~faulty /\ m <= arrived ~> m \in ingested \union skipped
=============================================================================
