------------------------ MODULE InboundMessageProofs ------------------------
(***************************************************************************)
(* What holds of InboundMessage for any number of messages, deliveries,    *)
(* attempts and faults.                                                    *)
(***************************************************************************)
EXTENDS InboundMessage, FiniteSetTheorems, SequenceTheorems, TLAPS

-----------------------------------------------------------------------------
(* The inductive invariant *)

Statements == {"status", "row", "send", "run", "note", "enqueue"}

\* A turn's list of statements records the run once at most.
Records(t, i) == t[i] \in {"run", "note"}
OneRecord(t) == \A i, j \in DOMAIN t : Records(t, i) /\ Records(t, j) => i = j

Turns == [via : {"none", "job", "inline"}, tries : 0 .. JobAttempts - 1,
          at : {"none", "queued", "stale", "cap", "think", "act", "done", "failed"},
          todo : Seq(Statements)]

\* A turn, where it is and what it has left to do.
TurnShape ==
  /\ turn \in [Messages -> Turns]
  /\ \A m \in Messages :
       /\ turn[m].at \in {"queued", "cap", "think", "act"} => turn[m].via # "none"
       /\ turn[m].at = "none" => turn[m].via = "none"
       /\ turn[m].at = "act" => turn[m].todo # <<>>
       /\ OneRecord(turn[m].todo)

HandlerShape == handler \in [Deliveries -> {"idle"} \cup InFlight \cup Over]

\* A message is stored once.
LogShape ==
  /\ log \in Seq([msg : Messages, conv : Deliveries])
  /\ \A i, j \in DOMAIN log : log[i].msg = log[j].msg => i = j

RowShape ==
  /\ events \subseteq Messages /\ contactRow \in BOOLEAN /\ optedOut \in BOOLEAN
  /\ convs \in [Deliveries -> {"NONE", "NEW", "OPEN", "WAITING_FOR_AGENT", "RESOLVED"}]
  /\ into \in [Deliveries -> Deliveries]
  /\ faults \in 0 .. InboundFaults

CountShape ==
  /\ runs \in [Deliveries -> Nat] /\ inlineCalls \in [Deliveries -> Nat]
  /\ unrecorded \in [Deliveries -> Nat]

Shapes == TurnShape /\ HandlerShape /\ LogShape /\ RowShape /\ CountShape

\* A message is stored after its event, and its turn comes after that.
Recorded ==
  \A m \in Messages : /\ Stored(m) => m \in events
                      /\ turn[m].at # "none" => Stored(m)

AfterEvent == (InFlight \cup {"done"}) \ {"found"}
AfterStore == {"reopen", "optOut", "route", "inline", "done"}
BeforeTurn == InFlight \ {"found", "inline"}

\* How far the handler of a delivery has taken its message.
Placed ==
  \A d \in Deliveries :
    /\ handler[d] \in AfterEvent \cup {"duplicate"} => d[1] \in events
    /\ handler[d] \in AfterStore => Stored(d[1])
    /\ handler[d] \in {"route", "inline", "done"} /\ d[1] \in OptOuts => optedOut
    /\ handler[d] \in BeforeTurn => turn[d[1]].at = "none"

\* One delivery of a message at most gets past its event, and one at least has.
OneHandler ==
  \A d, e \in Deliveries :
    d[1] = e[1] /\ handler[d] \in AfterEvent /\ handler[e] \in AfterEvent => d = e

Attended ==
  \A m \in events : \E d \in Deliveries : d[1] = m /\ handler[d] \in AfterEvent \cup {"failed"}

OwedIn(c) == {m \in Messages : Owed(m) /\ Home(m) = c}

InboundInv ==
  Shapes /\ Recorded /\ Placed /\ OneHandler /\ Attended /\ CallsAreCounted

-----------------------------------------------------------------------------
(* Lists of statements *)

\* What the agent decides makes a list that records the run once.
LEMMA Listed ==
  ASSUME NEW via \in {"inline", "job"}, NEW decision \in {"REPLY", "HANDOFF", "OTHER"}
  PROVE  /\ Duties(via, decision) \in Seq(Statements)
         /\ OneRecord(Duties(via, decision))
         /\ via = "inline" => \E i \in DOMAIN Duties(via, decision) : Records(Duties(via, decision), i)
<1>1. CASE via = "inline" /\ decision = "REPLY"
  <2>1. Duties(via, decision) = <<"row", "send", "run">>
    BY <1>1 DEF Duties
  <2>2. <<"row", "send", "run">> \in Seq(Statements)
    BY DEF Statements
  <2>3. OneRecord(<<"row", "send", "run">>)
    BY DEF OneRecord, Records
  <2>4. 3 \in DOMAIN <<"row", "send", "run">> /\ Records(<<"row", "send", "run">>, 3)
    BY DEF Records
  <2> QED BY <2>1, <2>2, <2>3, <2>4
<1>2. CASE via = "inline" /\ decision = "HANDOFF"
  <2>1. Duties(via, decision) = <<"status", "row", "send", "run">>
    BY <1>2 DEF Duties
  <2>2. <<"status", "row", "send", "run">> \in Seq(Statements)
    BY DEF Statements
  <2>3. OneRecord(<<"status", "row", "send", "run">>)
    BY DEF OneRecord, Records
  <2>4. 4 \in DOMAIN <<"status", "row", "send", "run">> /\ Records(<<"status", "row", "send", "run">>, 4)
    BY DEF Records
  <2> QED BY <2>1, <2>2, <2>3, <2>4
<1>3. CASE via = "inline" /\ decision = "OTHER"
  <2>1. Duties(via, decision) = <<"note">>
    BY <1>3 DEF Duties
  <2>2. <<"note">> \in Seq(Statements)
    BY DEF Statements
  <2>3. OneRecord(<<"note">>)
    BY DEF OneRecord, Records
  <2>4. 1 \in DOMAIN <<"note">> /\ Records(<<"note">>, 1)
    BY DEF Records
  <2> QED BY <2>1, <2>2, <2>3, <2>4
<1>4. CASE via = "job" /\ decision = "REPLY"
  <2>1. Duties(via, decision) = <<"row", "run", "enqueue">>
    BY <1>4 DEF Duties
  <2>2. <<"row", "run", "enqueue">> \in Seq(Statements)
    BY DEF Statements
  <2>3. OneRecord(<<"row", "run", "enqueue">>)
    BY DEF OneRecord, Records
  <2> QED BY <1>4, <2>1, <2>2, <2>3
<1>5. CASE via = "job" /\ decision = "HANDOFF"
  <2>1. Duties(via, decision) = <<"status", "row", "run", "enqueue">>
    BY <1>5 DEF Duties
  <2>2. <<"status", "row", "run", "enqueue">> \in Seq(Statements)
    BY DEF Statements
  <2>3. OneRecord(<<"status", "row", "run", "enqueue">>)
    BY DEF OneRecord, Records
  <2> QED BY <1>5, <2>1, <2>2, <2>3
<1>6. CASE via = "job" /\ decision = "OTHER"
  <2>1. Duties(via, decision) = <<>>
    BY <1>6 DEF Duties
  <2>2. <<>> \in Seq(Statements)
    BY DEF Statements
  <2>3. OneRecord(<<>>)
    BY DEF OneRecord, Records
  <2> QED BY <1>6, <2>1, <2>2, <2>3
<1> QED BY <1>1, <1>2, <1>3, <1>4, <1>5, <1>6

\* So does the notice of a conversation that has had too many turns.
LEMMA ListedLimit ==
  /\ Duties("inline", "TURN_LIMIT") \in Seq(Statements)
  /\ OneRecord(Duties("inline", "TURN_LIMIT"))
BY DEF Duties, Statements, OneRecord, Records

\* Doing the first of them leaves such a list, which records nothing if the first did.
LEMMA Shorter ==
  ASSUME NEW t \in Seq(Statements), t # <<>>, OneRecord(t)
  PROVE  /\ Tail(t) \in Seq(Statements)
         /\ OneRecord(Tail(t))
         /\ Head(t) \in {"run", "note"} => \A i \in DOMAIN Tail(t) : ~Records(Tail(t), i)
         /\ Head(t) \notin {"run", "note"} =>
              ((\E i \in DOMAIN t : Records(t, i)) <=> (\E i \in DOMAIN Tail(t) : Records(Tail(t), i)))
<1>1. /\ Tail(t) \in Seq(Statements) /\ Len(Tail(t)) = Len(t) - 1
      /\ \A i \in 1 .. Len(t) - 1 : Tail(t)[i] = t[i + 1]
      /\ Head(t) = t[1] /\ Len(t) \in Nat /\ Len(t) > 0
  OBVIOUS
<1>2. DOMAIN t = 1 .. Len(t) /\ DOMAIN Tail(t) = 1 .. Len(t) - 1
  BY <1>1
<1>3. \A i \in DOMAIN Tail(t) : i + 1 \in DOMAIN t /\ (Records(Tail(t), i) <=> Records(t, i + 1))
  BY <1>1, <1>2 DEF Records
<1>4. OneRecord(Tail(t))
  BY <1>2, <1>3 DEF OneRecord
<1>5. ASSUME Head(t) \in {"run", "note"}, NEW i \in DOMAIN Tail(t), Records(Tail(t), i) PROVE FALSE
  <2>1. Records(t, 1) /\ Records(t, i + 1) /\ 1 \in DOMAIN t
    BY <1>1, <1>2, <1>3, <1>5 DEF Records
  <2> QED BY <1>2, <1>3, <1>5, <2>1 DEF OneRecord
<1>6. ASSUME Head(t) \notin {"run", "note"}, NEW i \in DOMAIN t, Records(t, i)
      PROVE  \E j \in DOMAIN Tail(t) : Records(Tail(t), j)
  <2>1. i # 1
    BY <1>1, <1>6 DEF Records
  <2>2. i - 1 \in DOMAIN Tail(t) /\ (i - 1) + 1 = i
    BY <1>1, <1>2, <1>6, <2>1
  <2> QED BY <1>3, <1>6, <2>2
<1> QED BY <1>1, <1>3, <1>4, <1>5, <1>6

-----------------------------------------------------------------------------
(* Types *)

\* A turn replaced by one of the right shape.
LEMMA PutShape ==
  ASSUME TurnShape, NEW m \in Messages, NEW t \in Turns, Put(m, t), OneRecord(t.todo),
         t.at \in {"queued", "cap", "think", "act"} => t.via # "none",
         t.at # "none", t.at = "act" => t.todo # <<>>
  PROVE  TurnShape'
<1>1. turn' \in [Messages -> Turns]
  BY DEF TurnShape, Put
<1>2. turn'[m] = t /\ \A n \in Messages \ {m} : turn'[n] = turn[n]
  BY DEF TurnShape, Put
<1> QED BY <1>1, <1>2 DEF TurnShape

\* A handler that ends with its turn is over.
LEMMA EndShape ==
  ASSUME HandlerShape, NEW m, NEW how \in Over, EndHandler(m, how)
  PROVE  HandlerShape'
BY DEF HandlerShape, EndHandler

\* A turn that is over has nothing left to do.
LEMMA EmptyTurn ==
  ASSUME NEW via \in {"none", "job", "inline"}, NEW tries \in 0 .. JobAttempts - 1,
         NEW at \in {"none", "queued", "stale", "cap", "think", "act", "done", "failed"}
  PROVE  /\ [via |-> via, tries |-> tries, at |-> at, todo |-> <<>>] \in Turns
         /\ OneRecord(<<>>)
BY DEF Turns, OneRecord

\* A turn that has not been tried has tries left.
LEMMA NoTries == 0 \in 0 .. JobAttempts - 1
BY InboundAssumption

\* Replacing a turn's list keeps its shape, and ends it when the list is empty.
LEMMA LeftToShape ==
  ASSUME TurnShape, HandlerShape, NEW m \in Messages, turn[m].via # "none",
         NEW todo \in Seq(Statements), OneRecord(todo), LeftTo(m, todo)
  PROVE  TurnShape' /\ HandlerShape'
<1>1. turn[m] \in Turns
  BY DEF TurnShape
<1>2. CASE todo = <<>>
  <2> DEFINE t == [NoTurn EXCEPT !.at = "done"]
  <2>1. t = [via |-> "none", tries |-> 0, at |-> "done", todo |-> <<>>]
    BY DEF NoTurn
  <2>2. t \in Turns /\ OneRecord(t.todo) /\ t.at = "done"
    BY <2>1, EmptyTurn, NoTries
  <2>3. Put(m, t) /\ EndHandler(m, "done")
    BY <1>2 DEF LeftTo
  <2>4. TurnShape'
    BY <2>2, <2>3, PutShape
  <2> QED BY <2>3, <2>4, EndShape DEF Over
<1>3. CASE todo # <<>>
  <2> DEFINE t == [turn[m] EXCEPT !.at = "act", !.todo = todo]
  <2>1. t \in Turns /\ t.todo = todo /\ t.via = turn[m].via /\ t.at = "act"
    BY <1>1 DEF Turns
  <2>2. Put(m, t) /\ UNCHANGED handler
    BY <1>3 DEF LeftTo
  <2>3. TurnShape'
    BY <1>3, <2>1, <2>2, PutShape
  <2> QED BY <2>2, <2>3 DEF HandlerShape
<1> QED BY <1>2, <1>3

\* So does doing the first of its list.
LEMMA DidShape ==
  ASSUME TurnShape, HandlerShape, NEW m \in Messages, At(m, "act"), Did(m)
  PROVE  TurnShape' /\ HandlerShape'
<1>1. turn[m].todo \in Seq(Statements) /\ turn[m].todo # <<>> /\ OneRecord(turn[m].todo)
  BY DEF TurnShape, Turns, At
<1>2. turn[m].via # "none"
  BY DEF TurnShape, At
<1> QED BY <1>1, <1>2, Shorter, LeftToShape DEF Did

\* Turns and handlers keep their shape.
LEMMA TurnsKept ==
  ASSUME TurnShape, HandlerShape, [InboundNext]_inboundVars
  PROVE  (TurnShape /\ HandlerShape)'
<1>1. ASSUME NEW d \in Deliveries, Receive(d) PROVE (TurnShape /\ HandlerShape)'
  BY <1>1 DEF Receive, Step, inboundRows, turnVars, TurnShape, HandlerShape, InFlight, Over
<1>2. ASSUME NEW d \in Deliveries, CreateEvent(d) PROVE (TurnShape /\ HandlerShape)'
  BY <1>2 DEF CreateEvent, Step, inboundRows, turnVars, TurnShape, HandlerShape, InFlight, Over
<1>3. ASSUME NEW d \in Deliveries, FindContact(d) PROVE (TurnShape /\ HandlerShape)'
  BY <1>3 DEF FindContact, Step, inboundRows, turnVars, TurnShape, HandlerShape, InFlight, Over
<1>4. ASSUME NEW d \in Deliveries, CreateContact(d) PROVE (TurnShape /\ HandlerShape)'
  BY <1>4 DEF CreateContact, Step, inboundRows, turnVars, TurnShape, HandlerShape, InFlight, Over
<1>5. ASSUME NEW d \in Deliveries, FindConversation(d) PROVE (TurnShape /\ HandlerShape)'
  BY <1>5 DEF FindConversation, Step, inboundRows, turnVars, TurnShape, HandlerShape, InFlight, Over
<1>6. ASSUME NEW d \in Deliveries, CreateConversation(d) PROVE (TurnShape /\ HandlerShape)'
  BY <1>6 DEF CreateConversation, Step, inboundRows, turnVars, TurnShape, HandlerShape, InFlight, Over
<1>7. ASSUME NEW d \in Deliveries, StoreMessage(d) PROVE (TurnShape /\ HandlerShape)'
  BY <1>7 DEF StoreMessage, Step, inboundRows, turnVars, TurnShape, HandlerShape, InFlight, Over
<1>8. ASSUME NEW d \in Deliveries, Reopen(d) PROVE (TurnShape /\ HandlerShape)'
  BY <1>8 DEF Reopen, Step, inboundRows, turnVars, TurnShape, HandlerShape, InFlight, Over
<1>9. ASSUME NEW d \in Deliveries, RecordOptOut(d) PROVE (TurnShape /\ HandlerShape)'
  BY <1>9 DEF RecordOptOut, Step, inboundRows, turnVars, TurnShape, HandlerShape, InFlight, Over
<1>10. ASSUME NEW d \in Deliveries, Route(d) PROVE (TurnShape /\ HandlerShape)'
  <2>1. HandlerShape'
    BY <1>10 DEF Route, Step, HandlerShape, InFlight, Over
  <2>2. CASE UNCHANGED turn
    BY <2>1, <2>2 DEF TurnShape
  <2>3. ASSUME NEW via \in {"job", "inline"},
               turn' = [turn EXCEPT ![d[1]] = Queued(via, 0)]
        PROVE  TurnShape'
    <3> DEFINE t == [via |-> via, tries |-> 0, at |-> "queued", todo |-> <<>>]
    <3>1. t \in Turns /\ OneRecord(t.todo)
      BY EmptyTurn, NoTries
    <3>2. d[1] \in Messages
      BY DEF Messages
    <3>3. Put(d[1], t)
      BY <2>3 DEF Put, Queued
    <3> QED BY <3>1, <3>2, <3>3, PutShape
  <2> QED BY <1>10, <2>1, <2>2, <2>3 DEF Route
<1>11. ASSUME NEW d \in Deliveries, ResolveConv(d) PROVE (TurnShape /\ HandlerShape)'
  BY <1>11 DEF ResolveConv, Step, inboundRows, turnVars, TurnShape, HandlerShape, InFlight, Over
<1>12. ASSUME NEW m \in Messages, Look(m) PROVE (TurnShape /\ HandlerShape)'
  <2>1. turn[m] \in Turns /\ turn[m].via # "none" /\ OneRecord(turn[m].todo)
    BY <1>12 DEF Look, SkipIf, At, TurnShape
  <2>2. CASE Latest(Home(m)) # m
    <3> DEFINE t == [via |-> "none", tries |-> 0, at |-> "stale", todo |-> <<>>]
    <3>1. t \in Turns /\ OneRecord(t.todo)
      BY EmptyTurn, NoTries
    <3>2. Put(m, t) /\ EndHandler(m, "done")
      BY <1>12, <2>2 DEF Look, SkipIf, NoTurn
    <3> QED BY <3>1, <3>2, PutShape, EndShape DEF Over
  <2>3. CASE Latest(Home(m)) = m
    <3> DEFINE t == [turn[m] EXCEPT !.at = IF turn[m].via = "inline" THEN "cap" ELSE "think"]
    <3>1. t \in Turns /\ t.todo = turn[m].todo /\ t.via = turn[m].via /\ t.at \in {"cap", "think"}
      BY <2>1 DEF Turns
    <3>2. Put(m, t) /\ UNCHANGED handler
      BY <1>12, <2>3 DEF Look, SkipIf
    <3>3. TurnShape'
      BY <2>1, <3>1, <3>2, PutShape
    <3> QED BY <3>2, <3>3 DEF HandlerShape
  <2> QED BY <2>2, <2>3
<1>13. ASSUME NEW m \in Messages, CheckCap(m) PROVE (TurnShape /\ HandlerShape)'
  <2>1. turn[m] \in Turns /\ turn[m].via # "none" /\ OneRecord(turn[m].todo)
    BY <1>13 DEF CheckCap, At, TurnShape
  <2>2. CASE runs[Home(m)] < TurnCap
    <3> DEFINE t == [turn[m] EXCEPT !.at = "think"]
    <3>1. t \in Turns /\ t.todo = turn[m].todo /\ t.via = turn[m].via /\ t.at = "think"
      BY <2>1 DEF Turns
    <3>2. Put(m, t) /\ UNCHANGED handler
      BY <1>13, <2>2 DEF CheckCap
    <3>3. TurnShape'
      BY <2>1, <3>1, <3>2, PutShape
    <3> QED BY <3>2, <3>3 DEF HandlerShape
  <2>3. CASE ~(runs[Home(m)] < TurnCap)
    <3>1. LeftTo(m, Duties("inline", "TURN_LIMIT"))
      BY <1>13, <2>3 DEF CheckCap
    <3> QED BY <2>1, <3>1, ListedLimit, LeftToShape
  <2> QED BY <2>2, <2>3
<1>14. ASSUME NEW m \in Messages, Think(m) PROVE (TurnShape /\ HandlerShape)'
  <2>1. turn[m].via \in {"job", "inline"}
    BY <1>14 DEF Think, At, TurnShape, Turns
  <2>2. PICK decision \in {"REPLY", "HANDOFF", "OTHER"} : LeftTo(m, Duties(turn[m].via, decision))
    BY <1>14 DEF Think
  <2> QED BY <2>1, <2>2, Listed, LeftToShape
<1>15. ASSUME NEW m \in Messages, HandToHuman(m) PROVE (TurnShape /\ HandlerShape)'
  BY <1>15, DidShape DEF HandToHuman, Doing
<1>16. ASSUME NEW m \in Messages, Say(m) PROVE (TurnShape /\ HandlerShape)'
  BY <1>16, DidShape DEF Say, Doing
<1>17. ASSUME NEW m \in Messages, RecordRun(m) PROVE (TurnShape /\ HandlerShape)'
  BY <1>17, DidShape DEF RecordRun, Doing
<1>18. ASSUME NEW m \in Messages, TurnFails(m) PROVE (TurnShape /\ HandlerShape)'
  <2>1. turn[m] \in Turns /\ turn[m].via # "none" /\ turn[m].at \in {"think", "act"}
    BY <1>18 DEF TurnFails, TurnShape
  <2>2. CASE At(m, "act") /\ Did(m)
    BY <2>2, DidShape
  <2>3. ASSUME NEW via \in {"none", "job"}, NEW tries \in 0 .. JobAttempts - 1,
               NEW at \in {"queued", "failed"}, at = "queued" => via = "job",
               Put(m, [via |-> via, tries |-> tries, at |-> at, todo |-> <<>>]),
               EndHandler(m, "failed")
        PROVE  TurnShape' /\ HandlerShape'
    <3> DEFINE t == [via |-> via, tries |-> tries, at |-> at, todo |-> <<>>]
    <3>1. t \in Turns /\ OneRecord(t.todo)
      BY EmptyTurn
    <3>2. TurnShape'
      BY <2>3, <3>1, PutShape
    <3> QED BY <2>3, <3>2, EndShape DEF Over
  <2>4. CASE turn[m].via = "job" /\ turn[m].tries + 1 < JobAttempts /\ ~(At(m, "act") /\ Did(m))
    <3>1. turn[m].tries + 1 \in 0 .. JobAttempts - 1
      BY <2>1, <2>4, InboundAssumption DEF Turns
    <3>2. /\ Put(m, [via |-> "job", tries |-> turn[m].tries + 1, at |-> "queued", todo |-> <<>>])
          /\ EndHandler(m, "failed")
      BY <1>18, <2>4 DEF TurnFails, Queued
    <3> QED BY <3>1, <3>2, <2>3
  <2>5. CASE ~(turn[m].via = "job" /\ turn[m].tries + 1 < JobAttempts) /\ ~(At(m, "act") /\ Did(m))
    <3>1. /\ Put(m, [via |-> "none", tries |-> 0, at |-> "failed", todo |-> <<>>])
          /\ EndHandler(m, "failed")
      BY <1>18, <2>5 DEF TurnFails, NoTurn
    <3> QED BY <3>1, <2>3, NoTries
  <2> QED BY <2>2, <2>4, <2>5
<1>19. CASE ApiCrash
  <2>1. HandlerShape'
    BY <1>19 DEF ApiCrash, HandlerShape, Over
  <2>2. \A m \in Messages : turn'[m] = turn[m] \/ turn'[m] = [NoTurn EXCEPT !.at = "failed"]
    BY <1>19 DEF ApiCrash
  <2>3. /\ [NoTurn EXCEPT !.at = "failed"] \in Turns /\ OneRecord([NoTurn EXCEPT !.at = "failed"].todo)
        /\ [NoTurn EXCEPT !.at = "failed"].at = "failed"
    <3>1. [NoTurn EXCEPT !.at = "failed"] = [via |-> "none", tries |-> 0, at |-> "failed", todo |-> <<>>]
      BY DEF NoTurn
    <3> QED BY <3>1, EmptyTurn, NoTries
  <2>4. turn' = [m \in Messages |-> turn'[m]]
    BY <1>19 DEF ApiCrash
  <2>5. turn' \in [Messages -> Turns]
    BY <2>2, <2>3, <2>4 DEF TurnShape
  <2> QED BY <2>1, <2>2, <2>3, <2>5 DEF TurnShape
<1>20. CASE UNCHANGED inboundVars
  BY <1>20 DEF inboundVars, TurnShape, HandlerShape
<1> QED
  BY <1>1, <1>2, <1>3, <1>4, <1>5, <1>6, <1>7, <1>8, <1>9, <1>10, <1>11, <1>12, <1>13, <1>14, <1>15, <1>16,
       <1>17, <1>18, <1>19, <1>20 DEF InboundNext, HandlerStep, TurnStep

-----------------------------------------------------------------------------
(* The log *)

\* What Append adds, and what it leaves.
LEMMA LogGrows ==
  ASSUME LogShape, NEW x \in [msg : Messages, conv : Deliveries], log' = Append(log, x)
  PROVE  /\ DOMAIN log' = DOMAIN log \cup {Len(log) + 1} /\ Len(log) + 1 \notin DOMAIN log
         /\ log'[Len(log) + 1] = x /\ \A i \in DOMAIN log : log'[i] = log[i]
         /\ log' \in Seq([msg : Messages, conv : Deliveries])
<1>1. /\ log \in Seq([msg : Messages, conv : Deliveries]) /\ Len(log) \in Nat
      /\ DOMAIN log = 1 .. Len(log)
  BY DEF LogShape
<1>2. Len(log') = Len(log) + 1 /\ DOMAIN log' = 1 .. Len(log) + 1
  BY <1>1
<1> QED BY <1>1, <1>2

\* Only StoreMessage writes the log.
LEMMA LogStep ==
  ASSUME [InboundNext]_inboundVars
  PROVE  UNCHANGED log \/ \E d \in Deliveries : StoreMessage(d)
<1> USE DEF inboundRows
<1>1. ASSUME NEW d \in Deliveries, Receive(d) \/ HandlerStep(d) \/ ResolveConv(d), ~StoreMessage(d)
      PROVE  UNCHANGED log
  BY <1>1 DEF Receive, HandlerStep, CreateEvent, FindContact, CreateContact, FindConversation,
     CreateConversation, Reopen, RecordOptOut, Route, ResolveConv
<1>2. ASSUME NEW m \in Messages, TurnStep(m) \/ TurnFails(m)
      PROVE  UNCHANGED log
  BY <1>2 DEF TurnStep, Look, SkipIf, CheckCap, Think, HandToHuman, Say, RecordRun, TurnFails
<1>3. CASE ApiCrash \/ UNCHANGED inboundVars
  BY <1>3 DEF ApiCrash, inboundVars
<1> QED BY <1>1, <1>2, <1>3 DEF InboundNext

\* StoreMessage adds a message that was not stored, or nothing.
LEMMA StoreStep ==
  ASSUME LogShape, RowShape, NEW d \in Deliveries, StoreMessage(d)
  PROVE  \/ UNCHANGED log
         \/ /\ ~Stored(d[1])
            /\ log' = Append(log, [msg |-> d[1], conv |-> into[d]])
            /\ [msg |-> d[1], conv |-> into[d]] \in [msg : Messages, conv : Deliveries]
BY DEF StoreMessage, RowShape, Messages

\* A message is stored once.
LEMMA LogKept ==
  ASSUME LogShape, RowShape, [InboundNext]_inboundVars
  PROVE  LogShape'
<1>1. CASE UNCHANGED log
  BY <1>1 DEF LogShape
<1>2. ASSUME NEW d \in Deliveries, StoreMessage(d), ~(UNCHANGED log) PROVE LogShape'
  <2> DEFINE x == [msg |-> d[1], conv |-> into[d]]
  <2>1. ~Stored(d[1]) /\ log' = Append(log, x) /\ x \in [msg : Messages, conv : Deliveries]
    BY <1>2, StoreStep
  <2> HIDE DEF x
  <2>2. x.msg = d[1]
    BY DEF x
  <2>3. \A i \in DOMAIN log : log[i].msg # d[1]
    BY <2>1 DEF Stored
  <2> QED BY <2>1, <2>2, <2>3, LogGrows DEF LogShape
<1> QED BY <1>1, <1>2, LogStep

\* A message stored stays stored, in its conversation.
LEMMA StoredStays ==
  ASSUME LogShape, RowShape, [InboundNext]_inboundVars, NEW m, Stored(m)
  PROVE  Stored(m)' /\ Home(m)' = Home(m)
<1>1. CASE UNCHANGED log
  BY <1>1 DEF Stored, Home
<1>2. ASSUME NEW d \in Deliveries, StoreMessage(d), ~(UNCHANGED log)
      PROVE  Stored(m)' /\ Home(m)' = Home(m)
  <2> DEFINE x == [msg |-> d[1], conv |-> into[d]]
  <2>1. ~Stored(d[1]) /\ log' = Append(log, x) /\ x \in [msg : Messages, conv : Deliveries]
    BY <1>2, StoreStep
  <2> HIDE DEF x
  <2>2. x.msg = d[1] /\ d[1] # m
    BY <2>1 DEF x
  <2>3. PICK i \in DOMAIN log : log[i].msg = m
    BY DEF Stored
  <2>4. \A j \in DOMAIN log : log[j].msg = m => j = i
    BY <2>3 DEF LogShape
  <2>5. i \in DOMAIN log' /\ log'[i] = log[i] /\ \A j \in DOMAIN log' : log'[j].msg = m => j = i
    BY <2>1, <2>2, <2>3, <2>4, LogGrows
  <2>6. Home(m) = log[i].conv
    <3>1. (CHOOSE j \in DOMAIN log : log[j].msg = m) = i
      BY <2>3, <2>4
    <3> QED BY <3>1 DEF Home
  <2>7. Home(m)' = log'[i].conv
    <3>1. (CHOOSE j \in DOMAIN log' : log'[j].msg = m) = i
      BY <2>3, <2>5
    <3> QED BY <3>1 DEF Home
  <2> QED BY <2>3, <2>5, <2>6, <2>7 DEF Stored
<1> QED BY <1>1, <1>2, LogStep

\* A stored message has its conversation.
LEMMA HomeIs ==
  ASSUME LogShape, NEW m, Stored(m)
  PROVE  Home(m) \in Deliveries
<1>1. PICK i \in DOMAIN log : log[i].msg = m
  BY DEF Stored
<1>2. (CHOOSE j \in DOMAIN log : log[j].msg = m) = i
  BY <1>1 DEF LogShape
<1>3. log[i] \in [msg : Messages, conv : Deliveries]
  <2> DEFINE S == [msg : Messages, conv : Deliveries]
  <2>1. log \in Seq(S)
    BY DEF LogShape
  <2> HIDE DEF S
  <2>2. i \in 1 .. Len(log)
    BY <1>1, <2>1
  <2> QED BY <2>1, <2>2, ElementOfSeq DEF S
<1> QED BY <1>2, <1>3 DEF Home

-----------------------------------------------------------------------------
(* Where messages and handlers are *)

\* The rows keep their types.
LEMMA RowsKept ==
  ASSUME RowShape, [InboundNext]_inboundVars
  PROVE  RowShape'
<1> USE InboundAssumption DEF RowShape, inboundRows, turnVars, Fault, Step
<1>1. ASSUME NEW d \in Deliveries, Receive(d) PROVE RowShape'
  BY <1>1 DEF Receive
<1>2. ASSUME NEW d \in Deliveries, CreateEvent(d) PROVE RowShape'
  <2>1. d[1] \in Messages
    BY DEF Messages
  <2> QED BY <1>2, <2>1 DEF CreateEvent, EventKey
<1>3. ASSUME NEW d \in Deliveries, FindContact(d) PROVE RowShape'
  BY <1>3 DEF FindContact
<1>4. ASSUME NEW d \in Deliveries, CreateContact(d) PROVE RowShape'
  BY <1>4 DEF CreateContact
<1>5. ASSUME NEW d \in Deliveries, FindConversation(d) PROVE RowShape'
  <2>1. into' \in [Deliveries -> Deliveries]
    BY <1>5 DEF FindConversation, OpenConvs
  <2> QED BY <1>5, <2>1 DEF FindConversation
<1>6. ASSUME NEW d \in Deliveries, CreateConversation(d) PROVE RowShape'
  BY <1>6 DEF CreateConversation
<1>7. ASSUME NEW d \in Deliveries, StoreMessage(d) PROVE RowShape'
  BY <1>7 DEF StoreMessage
<1>8. ASSUME NEW d \in Deliveries, Reopen(d) PROVE RowShape'
  BY <1>8 DEF Reopen
<1>9. ASSUME NEW d \in Deliveries, RecordOptOut(d) PROVE RowShape'
  BY <1>9 DEF RecordOptOut
<1>10. ASSUME NEW d \in Deliveries, Route(d) PROVE RowShape'
  BY <1>10 DEF Route
<1>11. ASSUME NEW d \in Deliveries, ResolveConv(d) PROVE RowShape'
  BY <1>11 DEF ResolveConv
<1>12. ASSUME NEW m \in Messages, Look(m) PROVE RowShape'
  BY <1>12 DEF Look, SkipIf
<1>13. ASSUME NEW m \in Messages, CheckCap(m) PROVE RowShape'
  BY <1>13 DEF CheckCap
<1>14. ASSUME NEW m \in Messages, Think(m) PROVE RowShape'
  BY <1>14 DEF Think
<1>15. ASSUME NEW m \in Messages, HandToHuman(m) PROVE RowShape'
  BY <1>15 DEF HandToHuman
<1>16. ASSUME NEW m \in Messages, Say(m) PROVE RowShape'
  BY <1>16 DEF Say
<1>17. ASSUME NEW m \in Messages, RecordRun(m) PROVE RowShape'
  BY <1>17 DEF RecordRun
<1>18. ASSUME NEW m \in Messages, TurnFails(m) PROVE RowShape'
  BY <1>18 DEF TurnFails
<1>19. CASE ApiCrash
  BY <1>19 DEF ApiCrash
<1>20. CASE UNCHANGED inboundVars
  BY <1>20 DEF inboundVars, inboundRows
<1> QED
  BY <1>1, <1>2, <1>3, <1>4, <1>5, <1>6, <1>7, <1>8, <1>9, <1>10, <1>11, <1>12, <1>13, <1>14, <1>15, <1>16,
       <1>17, <1>18, <1>19, <1>20 DEF InboundNext, HandlerStep, TurnStep

\* What is known is not forgotten: events and the wish for no more messages.
LEMMA KnownStays ==
  ASSUME [InboundNext]_inboundVars
  PROVE  events \subseteq events' /\ (optedOut => optedOut')
<1> USE DEF inboundRows
<1>1. ASSUME NEW d \in Deliveries, Receive(d) \/ HandlerStep(d) \/ ResolveConv(d)
      PROVE  events \subseteq events' /\ (optedOut => optedOut')
  BY <1>1 DEF Receive, HandlerStep, CreateEvent, FindContact, CreateContact, FindConversation,
     CreateConversation, StoreMessage, Reopen, RecordOptOut, Route, ResolveConv
<1>2. ASSUME NEW m \in Messages, TurnStep(m) \/ TurnFails(m)
      PROVE  UNCHANGED <<events, optedOut>>
  BY <1>2 DEF TurnStep, Look, SkipIf, CheckCap, Think, HandToHuman, Say, RecordRun, TurnFails
<1>3. CASE ApiCrash \/ UNCHANGED inboundVars
  BY <1>3 DEF ApiCrash, inboundVars
<1> QED BY <1>1, <1>2, <1>3 DEF InboundNext

\* A turn's step moves the handler it runs in, if any, and no other, and starts no other turn.
LEMMA TurnMoves ==
  ASSUME TurnShape, HandlerShape, NEW m \in Messages, TurnStep(m) \/ TurnFails(m)
  PROVE  /\ turn[m].at # "none"
         /\ \A n \in Messages \ {m} : turn'[n] = turn[n]
         /\ \A d \in Deliveries :
              handler'[d] # handler[d] => handler[d] = "inline" /\ handler'[d] \in {"done", "failed"}
<1> USE DEF TurnShape, HandlerShape, At, Put, EndHandler
<1>1. CASE Look(m)
  BY <1>1 DEF Look, SkipIf
<1>2. ASSUME NEW todo, LeftTo(m, todo)
      PROVE  /\ \A n \in Messages \ {m} : turn'[n] = turn[n]
             /\ \A d \in Deliveries :
                  handler'[d] # handler[d] => handler[d] = "inline" /\ handler'[d] \in {"done", "failed"}
  BY <1>2 DEF LeftTo
<1>3. CASE CheckCap(m)
  <2>1. CASE LeftTo(m, Duties("inline", "TURN_LIMIT"))
    BY <1>2, <1>3, <2>1 DEF CheckCap
  <2>2. CASE ~LeftTo(m, Duties("inline", "TURN_LIMIT"))
    BY <1>3, <2>2 DEF CheckCap
  <2> QED BY <2>1, <2>2
<1>4. CASE Think(m)
  <2>1. PICK todo : LeftTo(m, todo)
    BY <1>4 DEF Think
  <2> QED BY <1>2, <1>4, <2>1 DEF Think
<1>5. CASE HandToHuman(m) \/ Say(m) \/ RecordRun(m)
  BY <1>2, <1>5 DEF HandToHuman, Say, RecordRun, Doing, Did
<1>6. CASE TurnFails(m)
  <2>1. turn[m].at \in {"think", "act"}
    BY <1>6 DEF TurnFails
  <2>2. CASE Did(m)
    BY <1>2, <2>1, <2>2 DEF Did
  <2>3. CASE ~Did(m)
    <3>1. EndHandler(m, "failed") /\ \E t : Put(m, t)
      BY <1>6, <2>3 DEF TurnFails
    <3> QED BY <2>1, <3>1
  <2> QED BY <2>2, <2>3
<1> QED BY <1>1, <1>3, <1>4, <1>5, <1>6 DEF TurnStep

\* A handler past its event stays past it, or has failed.
LEMMA GoesOnward ==
  ASSUME TurnShape, HandlerShape, [InboundNext]_inboundVars, NEW d \in Deliveries,
         handler[d] \in AfterEvent \cup {"failed"}
  PROVE  handler'[d] \in AfterEvent \cup {"failed"}
<1> USE DEF HandlerShape, AfterEvent, InFlight, Over
<1>1. ASSUME NEW e \in Deliveries, Receive(e) \/ HandlerStep(e) \/ ResolveConv(e)
      PROVE  handler'[d] \in AfterEvent \cup {"failed"}
  BY <1>1 DEF Receive, HandlerStep, CreateEvent, FindContact, CreateContact, FindConversation,
     CreateConversation, StoreMessage, Reopen, RecordOptOut, Route, ResolveConv, Step
<1>2. ASSUME NEW m \in Messages, TurnStep(m) \/ TurnFails(m)
      PROVE  handler'[d] \in AfterEvent \cup {"failed"}
  BY <1>2, TurnMoves
<1>3. CASE ApiCrash \/ UNCHANGED inboundVars
  BY <1>3 DEF ApiCrash, inboundVars
<1> QED BY <1>1, <1>2, <1>3 DEF InboundNext

\* An event has a handler that created it and went on, or failed.
LEMMA AttendedKept ==
  ASSUME TurnShape, HandlerShape, RowShape, Attended, [InboundNext]_inboundVars
  PROVE  Attended'
<1>1. ASSUME NEW m \in events PROVE \E d \in Deliveries : d[1] = m /\ handler'[d] \in AfterEvent \cup {"failed"}
  BY <1>1, GoesOnward DEF Attended
<1>2. ASSUME NEW m \in events', m \notin events
      PROVE  \E d \in Deliveries : d[1] = m /\ handler'[d] \in AfterEvent \cup {"failed"}
  <2>1. \E d \in Deliveries : CreateEvent(d)
    <3> USE DEF inboundRows
    <3>1. ASSUME NEW d \in Deliveries, Receive(d) \/ HandlerStep(d) \/ ResolveConv(d), ~CreateEvent(d)
          PROVE  UNCHANGED events
      BY <3>1 DEF Receive, HandlerStep, FindContact, CreateContact, FindConversation,
         CreateConversation, StoreMessage, Reopen, RecordOptOut, Route, ResolveConv
    <3>2. ASSUME NEW n \in Messages, TurnStep(n) \/ TurnFails(n)
          PROVE  UNCHANGED events
      BY <3>2 DEF TurnStep, Look, SkipIf, CheckCap, Think, HandToHuman, Say, RecordRun, TurnFails
    <3>3. ApiCrash \/ UNCHANGED inboundVars => UNCHANGED events
      BY DEF ApiCrash, inboundVars
    <3> QED BY <1>2, <3>1, <3>2, <3>3 DEF InboundNext
  <2>2. PICK d \in Deliveries : CreateEvent(d)
    BY <2>1
  <2>3. d[1] = m /\ handler'[d] = "contact"
    BY <1>2, <2>2 DEF CreateEvent, EventKey, Step, HandlerShape
  <2> QED BY <2>3 DEF AfterEvent, InFlight
<1> QED BY <1>1, <1>2 DEF Attended

\* A handler gets past its event by creating it, so alone.
LEMMA OneHandlerKept ==
  ASSUME TurnShape, HandlerShape, Placed, OneHandler, [InboundNext]_inboundVars
  PROVE  OneHandler'
<1>1. ASSUME NEW d \in Deliveries, handler'[d] \in AfterEvent, handler[d] \notin AfterEvent
      PROVE  /\ d[1] \notin events
             /\ \A e \in Deliveries \ {d} : handler'[e] = handler[e]
  <2> USE DEF HandlerShape, AfterEvent, InFlight, Over
  <2>1. ASSUME NEW e \in Deliveries, Receive(e) \/ HandlerStep(e) \/ ResolveConv(e), ~CreateEvent(e)
        PROVE  FALSE
    BY <1>1, <2>1 DEF Receive, HandlerStep, FindContact, CreateContact, FindConversation,
       CreateConversation, StoreMessage, Reopen, RecordOptOut, Route, ResolveConv, Step
  <2>2. ASSUME NEW e \in Deliveries, CreateEvent(e)
        PROVE  d = e /\ d[1] \notin events /\ \A f \in Deliveries \ {d} : handler'[f] = handler[f]
    BY <1>1, <2>2 DEF CreateEvent, EventKey, Step
  <2>3. ASSUME NEW m \in Messages, TurnStep(m) \/ TurnFails(m) PROVE FALSE
    BY <1>1, <2>3, TurnMoves
  <2>4. CASE ApiCrash \/ UNCHANGED inboundVars
    BY <1>1, <2>4 DEF ApiCrash, inboundVars
  <2> QED BY <2>1, <2>2, <2>3, <2>4 DEF InboundNext
<1>2. SUFFICES ASSUME NEW d \in Deliveries, NEW e \in Deliveries, d[1] = e[1],
                      handler'[d] \in AfterEvent, handler'[e] \in AfterEvent
               PROVE  d = e
  BY DEF OneHandler
<1>3. CASE handler[d] \in AfterEvent /\ handler[e] \in AfterEvent
  BY <1>2, <1>3 DEF OneHandler
<1>4. CASE handler[d] \notin AfterEvent
  <2>1. d # e => handler[e] \in AfterEvent
    BY <1>1, <1>2, <1>4
  <2> QED BY <1>1, <1>2, <1>4, <2>1 DEF Placed
<1>5. CASE handler[e] \notin AfterEvent
  <2>1. d # e => handler[d] \in AfterEvent
    BY <1>1, <1>2, <1>5
  <2> QED BY <1>1, <1>2, <1>5, <2>1 DEF Placed
<1> QED BY <1>3, <1>4, <1>5

\* A turn starts when its message's handler routes it.
LEMMA TurnStarts ==
  ASSUME TurnShape, HandlerShape, [InboundNext]_inboundVars, NEW m \in Messages,
         turn[m].at = "none", turn'[m].at # "none"
  PROVE  \E d \in Deliveries : Route(d) /\ d[1] = m
<1> USE DEF turnVars
<1>1. ASSUME NEW d \in Deliveries, Receive(d) \/ HandlerStep(d) \/ ResolveConv(d), ~Route(d)
      PROVE  UNCHANGED turn
  BY <1>1 DEF Receive, HandlerStep, CreateEvent, FindContact, CreateContact, FindConversation,
     CreateConversation, StoreMessage, Reopen, RecordOptOut, ResolveConv
<1>2. ASSUME NEW n \in Messages, TurnStep(n) \/ TurnFails(n)
      PROVE  turn'[m] = turn[m]
  BY <1>2, TurnMoves
<1>3. CASE ApiCrash
  BY <1>3 DEF ApiCrash, TurnShape
<1>4. CASE UNCHANGED inboundVars
  BY <1>4 DEF inboundVars
<1>5. ASSUME NEW d \in Deliveries, Route(d), d[1] # m PROVE turn'[m] = turn[m]
  BY <1>5 DEF Route, TurnShape
<1> QED BY <1>1, <1>2, <1>3, <1>4, <1>5 DEF InboundNext

\* Rows follow their event and turns follow their row.
LEMMA RecordedKept ==
  ASSUME TurnShape, HandlerShape, LogShape, RowShape, Recorded, Placed, [InboundNext]_inboundVars
  PROVE  Recorded'
<1>1. ASSUME NEW m \in Messages, Stored(m)' PROVE m \in events'
  <2>1. CASE Stored(m)
    BY <2>1, KnownStays DEF Recorded
  <2>2. CASE ~Stored(m)
    <3>1. PICK d \in Deliveries : StoreMessage(d) /\ ~(UNCHANGED log)
      <4>1. UNCHANGED log => (Stored(m)' <=> Stored(m))
        BY DEF Stored
      <4> QED BY <1>1, <2>2, <4>1, LogStep
    <3> DEFINE x == [msg |-> d[1], conv |-> into[d]]
    <3>2. log' = Append(log, x) /\ x \in [msg : Messages, conv : Deliveries]
      BY <3>1, StoreStep
    <3> HIDE DEF x
    <3>3. x.msg = m
      BY <1>1, <2>2, <3>2, LogGrows DEF Stored
    <3>4. d[1] \in events
      BY <3>1 DEF StoreMessage, Step, Placed, AfterEvent, InFlight
    <3> QED BY <3>3, <3>4, KnownStays DEF x
  <2> QED BY <2>1, <2>2
<1>2. ASSUME NEW m \in Messages, turn'[m].at # "none" PROVE Stored(m)'
  <2>1. CASE turn[m].at # "none"
    BY <2>1, StoredStays DEF Recorded
  <2>2. CASE turn[m].at = "none"
    <3>1. PICK d \in Deliveries : Route(d) /\ d[1] = m
      BY <1>2, <2>2, TurnStarts
    <3>2. Stored(m)
      BY <3>1 DEF Route, Step, Placed, AfterStore
    <3> QED BY <3>2, StoredStays
  <2> QED BY <2>1, <2>2
<1> QED BY <1>1, <1>2 DEF Recorded

\* Each handler has done what its place says.
LEMMA PlacedKept ==
  ASSUME TurnShape, HandlerShape, LogShape, RowShape, Recorded, Placed, OneHandler,
         [InboundNext]_inboundVars
  PROVE  Placed'
<1> SUFFICES ASSUME NEW d \in Deliveries
             PROVE  /\ handler'[d] \in AfterEvent \cup {"duplicate"} => d[1] \in events'
                    /\ handler'[d] \in AfterStore => Stored(d[1])'
                    /\ handler'[d] \in {"route", "inline", "done"} /\ d[1] \in OptOuts => optedOut'
                    /\ handler'[d] \in BeforeTurn => turn'[d[1]].at = "none"
  BY DEF Placed
<1> USE DEF HandlerShape, AfterEvent, AfterStore, BeforeTurn, InFlight, Over, inboundRows
<1>0. d[1] \in Messages
  BY DEF Messages
\* Its own step, or somebody else's.
<1>1. \/ handler'[d] = handler[d]
      \/ handler[d] = "inline" /\ handler'[d] \in {"done", "failed"}
      \/ handler'[d] = "failed"
      \/ Receive(d) \/ HandlerStep(d)
  <2>1. ASSUME NEW e \in Deliveries, Receive(e) \/ HandlerStep(e) \/ ResolveConv(e), e # d
        PROVE  handler'[d] = handler[d]
    BY <2>1 DEF Receive, HandlerStep, CreateEvent, FindContact, CreateContact, FindConversation,
       CreateConversation, StoreMessage, Reopen, RecordOptOut, Route, ResolveConv, Step
  <2>2. ResolveConv(d) => handler'[d] = handler[d]
    BY DEF ResolveConv
  <2>3. ASSUME NEW m \in Messages, TurnStep(m) \/ TurnFails(m)
        PROVE  handler'[d] # handler[d] => handler[d] = "inline" /\ handler'[d] \in {"done", "failed"}
    BY <2>3, TurnMoves
  <2>4. CASE ApiCrash \/ UNCHANGED inboundVars
    BY <2>4 DEF ApiCrash, inboundVars
  <2> QED BY <2>1, <2>2, <2>3, <2>4 DEF InboundNext
<1>2. ASSUME handler'[d] \in AfterEvent \cup {"duplicate"} PROVE d[1] \in events'
  <2>1. CASE handler[d] \in AfterEvent \cup {"duplicate"}
    BY <2>1, KnownStays DEF Placed
  <2>2. CASE handler[d] \notin AfterEvent \cup {"duplicate"}
    <3>1. Receive(d) \/ CreateEvent(d)
      BY <1>1, <1>2, <2>2 DEF HandlerStep, FindContact, CreateContact, FindConversation,
         CreateConversation, StoreMessage, Reopen, RecordOptOut, Route, Step
    <3> QED BY <1>2, <2>2, <3>1 DEF Receive, CreateEvent, EventKey, Step
  <2> QED BY <2>1, <2>2
<1>3. ASSUME handler'[d] \in AfterStore PROVE Stored(d[1])'
  <2>1. CASE handler[d] \in AfterStore
    BY <2>1, StoredStays DEF Placed
  <2>2. CASE handler[d] \notin AfterStore
    <3>1. StoreMessage(d) /\ handler'[d] = "reopen"
      BY <1>1, <1>3, <2>2 DEF Receive, HandlerStep, CreateEvent, FindContact, CreateContact,
         FindConversation, CreateConversation, StoreMessage, Reopen, RecordOptOut, Route, Step
    <3> DEFINE x == [msg |-> d[1], conv |-> into[d]]
    <3>2. log' = Append(log, x) /\ x \in [msg : Messages, conv : Deliveries]
      BY <3>1 DEF StoreMessage, Step, RowShape, Messages
    <3>3. x.msg = d[1]
      OBVIOUS
    <3> HIDE DEF x
    <3> QED BY <3>2, <3>3, LogGrows DEF Stored
  <2> QED BY <2>1, <2>2
<1>4. ASSUME handler'[d] \in {"route", "inline", "done"}, d[1] \in OptOuts PROVE optedOut'
  <2>1. CASE handler[d] \in {"route", "inline", "done"}
    BY <1>4, <2>1, KnownStays DEF Placed
  <2>2. CASE handler[d] \notin {"route", "inline", "done"}
    BY <1>1, <1>4, <2>2 DEF Receive, HandlerStep, CreateEvent, FindContact, CreateContact,
       FindConversation, CreateConversation, StoreMessage, Reopen, RecordOptOut, Route, Step
  <2> QED BY <2>1, <2>2
<1>5. ASSUME handler'[d] \in BeforeTurn, turn'[d[1]].at # "none" PROVE FALSE
  <2>1. CASE handler[d] \in BeforeTurn
    <3>1. turn[d[1]].at = "none"
      BY <2>1 DEF Placed
    <3>2. PICK e \in Deliveries : Route(e) /\ e[1] = d[1]
      BY <1>0, <1>5, <3>1, TurnStarts
    <3>3. e = d
      BY <2>1, <3>2 DEF Route, Step, OneHandler
    <3> QED BY <1>5, <3>2, <3>3 DEF Route, Step
  <2>2. CASE handler[d] \notin BeforeTurn
    <3>1. CreateEvent(d) /\ handler'[d] = "contact"
      BY <1>1, <1>5, <2>2 DEF Receive, HandlerStep, CreateEvent, FindContact, CreateContact,
         FindConversation, CreateConversation, StoreMessage, Reopen, RecordOptOut, Route, Step
    <3>2. d[1] \notin events /\ UNCHANGED turn
      BY <3>1 DEF CreateEvent, EventKey, Step, turnVars
    <3> QED BY <1>0, <1>5, <3>2 DEF Recorded
  <2> QED BY <2>1, <2>2
<1> QED BY <1>2, <1>3, <1>4, <1>5

-----------------------------------------------------------------------------
(* The books *)

\* There are finitely many messages.
LEMMA MessagesFinite == IsFiniteSet(Messages)
<1> DEFINE f == [d \in Deliveries |-> d[1]]
<1>1. f \in Surjection(Deliveries, Messages)
  BY DEF Surjection, Messages
<1> QED BY <1>1, FS_Surjection, InboundAssumption

\* So the rows owed for a conversation can be counted.
LEMMA OwedFinite ==
  ASSUME NEW c
  PROVE  IsFiniteSet(OwedIn(c)) /\ Cardinality(OwedIn(c)) \in Nat
<1>1. OwedIn(c) \subseteq Messages
  BY DEF OwedIn
<1>2. IsFiniteSet(OwedIn(c))
  BY <1>1, MessagesFinite, FS_Subset
<1> QED BY <1>2, FS_CardinalityType

\* Only a message that is stored has a turn under way.
LEMMA OwedIsStored ==
  ASSUME Recorded, NEW m \in Messages, Owed(m)
  PROVE  Stored(m)
BY DEF Recorded, Owed, At

\* What is owed for the conversations changes with the one turn that moves.
LEMMA OwedMoves ==
  ASSUME LogShape, RowShape, Recorded, [InboundNext]_inboundVars, NEW m \in Messages, Stored(m),
         \A n \in Messages \ {m} : turn'[n] = turn[n]
  PROVE  \A c \in Deliveries :
           OwedIn(c)' = IF Home(m) # c \/ (Owed(m)' <=> Owed(m)) THEN OwedIn(c)
                        ELSE IF Owed(m)' THEN OwedIn(c) \cup {m} ELSE OwedIn(c) \ {m}
<1> TAKE c \in Deliveries
<1>1. Home(m)' = Home(m)
  BY StoredStays
<1>2. \A n \in Messages \ {m} : Owed(n)' <=> Owed(n)
  BY DEF Owed, At
<1>3. \A n \in Messages \ {m} : Owed(n) => Home(n)' = Home(n)
  BY StoredStays, OwedIsStored
<1>4. \A n \in Messages \ {m} : n \in OwedIn(c)' <=> n \in OwedIn(c)
  BY <1>2, <1>3 DEF OwedIn
<1>5. m \in OwedIn(c)' <=> Owed(m)' /\ Home(m) = c
  BY <1>1 DEF OwedIn
<1>6. m \in OwedIn(c) <=> Owed(m) /\ Home(m) = c
  BY DEF OwedIn
<1>7. OwedIn(c) \subseteq Messages /\ OwedIn(c)' \subseteq Messages
  BY DEF OwedIn
<1> QED BY <1>4, <1>5, <1>6, <1>7

\* A step that moves no turn, or one that is not owed for before or after, owes the same.
LEMMA OwedSame ==
  ASSUME LogShape, RowShape, Recorded, [InboundNext]_inboundVars,
         \A n \in Messages : Owed(n)' <=> Owed(n)
  PROVE  \A c \in Deliveries : OwedIn(c)' = OwedIn(c)
<1> TAKE c \in Deliveries
<1>1. \A n \in Messages : Owed(n) => Home(n)' = Home(n)
  BY StoredStays, OwedIsStored
<1>2. \A n \in Messages : n \in OwedIn(c)' <=> n \in OwedIn(c)
  BY <1>1 DEF OwedIn
<1> QED BY <1>2 DEF OwedIn

\* The calls made are paid by the rows written, the rows that could not be and those a turn
\* still owes, after a step that moves one turn.
LEMMA Balanced ==
  ASSUME LogShape, RowShape, CountShape, Recorded, CallsAreCounted, [InboundNext]_inboundVars,
         NEW m \in Messages, Stored(m), \A n \in Messages \ {m} : turn'[n] = turn[n],
         CountShape',
         \A c \in Deliveries \ {Home(m)} :
           inlineCalls'[c] = inlineCalls[c] /\ runs'[c] + unrecorded'[c] >= runs[c] + unrecorded[c],
         inlineCalls'[Home(m)] + (IF Owed(m) THEN 1 ELSE 0) + runs[Home(m)] + unrecorded[Home(m)]
           <= inlineCalls[Home(m)] + (IF Owed(m)' THEN 1 ELSE 0)
                + runs'[Home(m)] + unrecorded'[Home(m)]
  PROVE  CallsAreCounted'
<1> SUFFICES ASSUME NEW c \in Deliveries
             PROVE  inlineCalls'[c] <= runs'[c] + unrecorded'[c] + Cardinality(OwedIn(c)')
  BY DEF CallsAreCounted, OwedIn
<1>1. inlineCalls[c] <= runs[c] + unrecorded[c] + Cardinality(OwedIn(c))
  BY DEF CallsAreCounted, OwedIn
<1>2. /\ inlineCalls[c] \in Nat /\ runs[c] \in Nat /\ unrecorded[c] \in Nat
      /\ inlineCalls'[c] \in Nat /\ runs'[c] \in Nat /\ unrecorded'[c] \in Nat
  BY DEF CountShape
<1>3. IsFiniteSet(OwedIn(c)) /\ Cardinality(OwedIn(c)) \in Nat
  BY OwedFinite
<1>4. CASE c # Home(m)
  <2>1. OwedIn(c)' = OwedIn(c)
    BY <1>4, OwedMoves
  <2> QED BY <1>1, <1>2, <1>3, <1>4, <2>1
<1>5. CASE c = Home(m) /\ (Owed(m)' <=> Owed(m))
  <2>1. OwedIn(c)' = OwedIn(c)
    BY <1>5, OwedMoves
  <2>2. inlineCalls'[c] + runs[c] + unrecorded[c] <= inlineCalls[c] + runs'[c] + unrecorded'[c]
    BY <1>2, <1>5
  <2> QED BY <1>1, <1>2, <1>3, <2>1, <2>2
<1>6. CASE c = Home(m) /\ Owed(m)' /\ ~Owed(m)
  <2>1. OwedIn(c)' = OwedIn(c) \cup {m} /\ m \notin OwedIn(c)
    BY <1>6, OwedMoves DEF OwedIn
  <2>2. Cardinality(OwedIn(c)') = Cardinality(OwedIn(c)) + 1
    BY <1>3, <2>1, FS_AddElement
  <2>3. inlineCalls'[c] + runs[c] + unrecorded[c] <= inlineCalls[c] + 1 + runs'[c] + unrecorded'[c]
    BY <1>2, <1>6
  <2> QED BY <1>1, <1>2, <1>3, <2>2, <2>3
<1>7. CASE c = Home(m) /\ ~Owed(m)' /\ Owed(m)
  <2>1. OwedIn(c)' = OwedIn(c) \ {m} /\ m \in OwedIn(c)
    BY <1>7, OwedMoves DEF OwedIn
  <2>2. Cardinality(OwedIn(c)') = Cardinality(OwedIn(c)) - 1
    BY <1>3, <2>1, FS_RemoveElement
  <2>3. inlineCalls'[c] + 1 + runs[c] + unrecorded[c] <= inlineCalls[c] + runs'[c] + unrecorded'[c]
    BY <1>2, <1>7
  <2> QED BY <1>1, <1>2, <1>3, <2>2, <2>3
<1> QED BY <1>4, <1>5, <1>6, <1>7

\* A step that neither calls nor records, and owes the same, keeps the balance.
LEMMA NothingCounted ==
  ASSUME LogShape, RowShape, Recorded, CallsAreCounted, [InboundNext]_inboundVars,
         UNCHANGED <<runs, inlineCalls, unrecorded>>, \A n \in Messages : Owed(n)' <=> Owed(n)
  PROVE  CallsAreCounted'
<1>1. \A c \in Deliveries : OwedIn(c)' = OwedIn(c)
  BY OwedSame
<1> QED BY <1>1 DEF CallsAreCounted, OwedIn

\* What a turn owes when its list is replaced, and when it does the first of it.
LEMMA LeftToOwes ==
  ASSUME TurnShape, NEW m \in Messages, NEW todo \in Seq(Statements), LeftTo(m, todo)
  PROVE  Owed(m)' <=> turn[m].via = "inline" /\ \E i \in DOMAIN todo : Records(todo, i)
<1>1. CASE todo = <<>>
  <2>1. turn'[m].via = "none"
    BY <1>1 DEF LeftTo, Put, NoTurn, TurnShape
  <2>2. DOMAIN todo = {}
    BY <1>1
  <2> QED BY <2>1, <2>2 DEF Owed
<1>2. CASE todo # <<>>
  <2>1. turn[m] \in Turns
    BY DEF TurnShape
  <2> DEFINE t == [turn[m] EXCEPT !.at = "act", !.todo = todo]
  <2>2. t.via = turn[m].via /\ t.at = "act" /\ t.todo = todo
    BY <2>1 DEF Turns
  <2>3. turn'[m] = t
    BY <1>2 DEF LeftTo, Put, TurnShape
  <2> QED BY <2>2, <2>3 DEF Owed, At, Records
<1> QED BY <1>1, <1>2

\* Doing the first of its list, a turn owes what the rest of it says.
LEMMA DidOwes ==
  ASSUME TurnShape, NEW m \in Messages, At(m, "act"), Did(m)
  PROVE  IF Head(turn[m].todo) \in {"run", "note"} THEN ~Owed(m)' ELSE Owed(m)' <=> Owed(m)
<1>1. turn[m].todo \in Seq(Statements) /\ turn[m].todo # <<>> /\ OneRecord(turn[m].todo)
  BY DEF TurnShape, Turns, At
<1> DEFINE t == turn[m].todo
<1>2. /\ Tail(t) \in Seq(Statements)
      /\ Head(t) \in {"run", "note"} => \A i \in DOMAIN Tail(t) : ~Records(Tail(t), i)
      /\ Head(t) \notin {"run", "note"} =>
           ((\E i \in DOMAIN t : Records(t, i)) <=> (\E i \in DOMAIN Tail(t) : Records(Tail(t), i)))
  BY <1>1, Shorter
<1>3. Owed(m) <=> turn[m].via = "inline" /\ \E i \in DOMAIN t : Records(t, i)
  BY DEF Owed, At, Records
<1>4. Owed(m)' <=> turn[m].via = "inline" /\ \E i \in DOMAIN Tail(t) : Records(Tail(t), i)
  BY <1>2, LeftToOwes DEF Did
<1> QED BY <1>2, <1>3, <1>4

\* So can the rows of the turns that fail.
LEMMA FewFail ==
  ASSUME NEW failing \in SUBSET Messages, NEW c
  PROVE  Cardinality({n \in failing : Owed(n) /\ Home(n) = c}) \in Nat
<1>1. {n \in failing : Owed(n) /\ Home(n) = c} \subseteq Messages
  OBVIOUS
<1>2. IsFiniteSet({n \in failing : Owed(n) /\ Home(n) = c})
  BY <1>1, MessagesFinite, FS_Subset
<1> QED BY <1>2, FS_CardinalityType

\* The counts stay counts.
LEMMA CountsKept ==
  ASSUME TurnShape, HandlerShape, LogShape, CountShape, Recorded, [InboundNext]_inboundVars
  PROVE  CountShape'
<1> USE DEF CountShape
<1>1. ASSUME NEW d \in Deliveries, Receive(d) \/ HandlerStep(d) \/ ResolveConv(d)
      PROVE  CountShape'
  <2>1. UNCHANGED <<runs, inlineCalls, unrecorded>>
    BY <1>1 DEF Receive, HandlerStep, CreateEvent, FindContact, CreateContact, FindConversation,
       CreateConversation, StoreMessage, Reopen, RecordOptOut, Route, ResolveConv, turnVars
  <2> QED BY <2>1
<1>2. ASSUME NEW failing \in SUBSET Messages, Unrecord(failing)
      PROVE  unrecorded' \in [Deliveries -> Nat]
  <2>1. \A c \in Deliveries : unrecorded[c] + Cardinality({n \in failing : Owed(n) /\ Home(n) = c}) \in Nat
    BY FewFail
  <2> QED BY <1>2, <2>1 DEF Unrecord
<1>3. ASSUME NEW m \in Messages, TurnStep(m) \/ TurnFails(m)
      PROVE  CountShape'
  <2>1. Home(m) \in Deliveries
    BY <1>3, TurnMoves, HomeIs DEF Recorded
  <2>2. CASE Look(m) \/ CheckCap(m) \/ HandToHuman(m) \/ Say(m)
    <3>1. UNCHANGED <<runs, inlineCalls, unrecorded>>
      BY <2>2 DEF Look, SkipIf, CheckCap, HandToHuman, Say
    <3> QED BY <3>1
  <2>3. CASE Think(m)
    <3>1. /\ UNCHANGED <<runs, unrecorded>>
          /\ inlineCalls' = inlineCalls \/ inlineCalls' = [inlineCalls EXCEPT ![Home(m)] = @ + 1]
      BY <2>3 DEF Think
    <3> QED BY <2>1, <3>1
  <2>4. CASE RecordRun(m)
    <3>1. UNCHANGED <<inlineCalls, unrecorded>> /\ runs' = [runs EXCEPT ![Home(m)] = @ + 1]
      BY <2>4 DEF RecordRun
    <3> QED BY <2>1, <3>1
  <2>5. CASE TurnFails(m)
    <3>1. UNCHANGED <<runs, inlineCalls>> /\ (unrecorded' = unrecorded \/ Unrecord({m}))
      BY <2>5 DEF TurnFails
    <3> QED BY <1>2, <3>1
  <2> QED BY <1>3, <2>2, <2>3, <2>4, <2>5 DEF TurnStep
<1>4. CASE ApiCrash
  <2>1. UNCHANGED <<runs, inlineCalls>> /\ \E lost \in SUBSET Messages : Unrecord(lost)
    BY <1>4 DEF ApiCrash
  <2> QED BY <1>2, <2>1
<1>5. CASE UNCHANGED inboundVars
  BY <1>5 DEF inboundVars
<1> QED BY <1>1, <1>3, <1>4, <1>5 DEF InboundNext

\* No step takes a call without a row, written, lost or owed.
LEMMA CountedKept ==
  ASSUME TurnShape, HandlerShape, LogShape, RowShape, CountShape, CountShape', Recorded, Placed,
         CallsAreCounted, [InboundNext]_inboundVars
  PROVE  CallsAreCounted'
<1>1. ASSUME NEW d \in Deliveries, Receive(d) \/ HandlerStep(d) \/ ResolveConv(d)
      PROVE  CallsAreCounted'
  <2>1. UNCHANGED <<runs, inlineCalls, unrecorded>>
    BY <1>1 DEF Receive, HandlerStep, CreateEvent, FindContact, CreateContact, FindConversation,
       CreateConversation, StoreMessage, Reopen, RecordOptOut, Route, ResolveConv, turnVars
  <2>2. CASE ~Route(d)
    <3>1. UNCHANGED turn
      BY <1>1, <2>2 DEF Receive, HandlerStep, CreateEvent, FindContact, CreateContact,
         FindConversation, CreateConversation, StoreMessage, Reopen, RecordOptOut, ResolveConv, turnVars
    <3>2. \A n \in Messages : Owed(n)' <=> Owed(n)
      BY <3>1 DEF Owed, At
    <3> QED BY <2>1, <3>2, NothingCounted
  <2>3. CASE Route(d)
    <3>1. d[1] \in Messages /\ turn[d[1]].at = "none"
      BY <2>3 DEF Route, Step, Placed, BeforeTurn, InFlight, Messages
    <3>2. \A n \in Messages : turn'[n] = turn[n] \/ (n = d[1] /\ turn'[n].at = "queued")
      BY <2>3 DEF Route, Queued, TurnShape
    <3>3. \A n \in Messages : Owed(n)' <=> Owed(n)
      BY <3>1, <3>2 DEF Owed, At
    <3> QED BY <2>1, <3>3, NothingCounted
  <2> QED BY <2>2, <2>3
<1>2. ASSUME NEW m \in Messages, TurnStep(m) \/ TurnFails(m)
      PROVE  CallsAreCounted'
  <2>1. /\ \A n \in Messages \ {m} : turn'[n] = turn[n]
        /\ Stored(m) /\ Home(m) \in Deliveries
    BY <1>2, TurnMoves, HomeIs DEF Recorded
  <2>2. \A n \in Messages \ {m} : Owed(n)' <=> Owed(n)
    BY <2>1 DEF Owed, At
  <2>3. /\ \A c \in Deliveries : inlineCalls[c] \in Nat /\ runs[c] \in Nat /\ unrecorded[c] \in Nat
        /\ \A c \in Deliveries : inlineCalls'[c] \in Nat /\ runs'[c] \in Nat /\ unrecorded'[c] \in Nat
    BY DEF CountShape
  \* A step that calls nothing and writes no row pays if the turn owes no less.
  <2>4. ASSUME UNCHANGED <<runs, inlineCalls, unrecorded>>, Owed(m) => Owed(m)'
        PROVE  CallsAreCounted'
    BY <2>1, <2>3, <2>4, Balanced
  <2>5. CASE Look(m)
    <3>1. ~Owed(m) /\ UNCHANGED <<runs, inlineCalls, unrecorded>>
      BY <2>5 DEF Look, SkipIf, Owed, At
    <3> QED BY <2>4, <3>1
  <2>6. CASE CheckCap(m)
    <3>1. ~Owed(m) /\ UNCHANGED <<runs, inlineCalls, unrecorded>>
      BY <2>6 DEF CheckCap, Owed, At
    <3> QED BY <2>4, <3>1
  <2>7. CASE Think(m)
    <3>1. ~Owed(m) /\ UNCHANGED <<runs, unrecorded>> /\ turn[m].via \in {"job", "inline"}
      BY <2>7 DEF Think, Owed, At, TurnShape, Turns
    <3>2. CASE turn[m].via = "job"
      <4>1. UNCHANGED inlineCalls
        BY <2>7, <3>2 DEF Think
      <4> QED BY <2>4, <3>1, <4>1
    <3>3. CASE turn[m].via = "inline"
      <4>1. inlineCalls' = [inlineCalls EXCEPT ![Home(m)] = @ + 1]
        BY <2>7, <3>3 DEF Think
      <4>2. PICK decision \in {"REPLY", "HANDOFF", "OTHER"} : LeftTo(m, Duties("inline", decision))
        BY <2>7, <3>3 DEF Think
      <4>3. Owed(m)'
        BY <3>3, <4>2, Listed, LeftToOwes
      <4>4. /\ inlineCalls'[Home(m)] = inlineCalls[Home(m)] + 1
            /\ \A c \in Deliveries \ {Home(m)} : inlineCalls'[c] = inlineCalls[c]
        BY <2>1, <4>1 DEF CountShape
      <4> QED BY <2>1, <2>3, <3>1, <4>3, <4>4, Balanced
    <3> QED BY <3>1, <3>2, <3>3
  <2>8. CASE HandToHuman(m) \/ Say(m)
    <3>1. /\ At(m, "act") /\ Did(m) /\ Head(turn[m].todo) \notin {"run", "note"}
          /\ UNCHANGED <<runs, inlineCalls, unrecorded>>
      BY <2>8 DEF HandToHuman, Say, Doing
    <3>2. Owed(m)' <=> Owed(m)
      BY <3>1, DidOwes
    <3> QED BY <2>4, <3>1, <3>2
  <2>9. CASE RecordRun(m)
    <3>1. /\ UNCHANGED <<inlineCalls, unrecorded>> /\ runs' = [runs EXCEPT ![Home(m)] = @ + 1]
      BY <2>9 DEF RecordRun
    <3>2. /\ runs'[Home(m)] = runs[Home(m)] + 1
          /\ \A c \in Deliveries \ {Home(m)} : runs'[c] = runs[c]
      BY <2>1, <3>1 DEF CountShape
    <3> QED BY <2>1, <2>3, <3>1, <3>2, Balanced
  <2>10. ASSUME UNCHANGED <<runs, inlineCalls>>, Unrecord({m})
         PROVE  CallsAreCounted'
    <3>1. \A c \in Deliveries :
            unrecorded'[c] = unrecorded[c] + Cardinality({n \in {m} : Owed(n) /\ Home(n) = c})
      BY <2>10 DEF Unrecord
    <3>2. \A c \in Deliveries : {n \in {m} : Owed(n) /\ Home(n) = c}
                                  = IF Owed(m) /\ Home(m) = c THEN {m} ELSE {}
      OBVIOUS
    <3>3. \A c \in Deliveries :
            unrecorded'[c] = unrecorded[c] + IF Owed(m) /\ Home(m) = c THEN 1 ELSE 0
      BY <3>1, <3>2, FS_Singleton, FS_EmptySet
    <3> QED BY <2>1, <2>3, <2>10, <3>3, Balanced
  <2>11. CASE TurnFails(m)
    <3>1. UNCHANGED <<runs, inlineCalls>>
      BY <2>11 DEF TurnFails
    <3>2. CASE At(m, "act") /\ Head(turn[m].todo) = "send"
      <4>1. UNCHANGED unrecorded
        BY <2>11, <3>2 DEF TurnFails
      <4>2. CASE turn[m].via = "inline"
        <5>1. Did(m)
          BY <2>11, <3>2, <4>2 DEF TurnFails
        <5>2. Owed(m)' <=> Owed(m)
          BY <3>2, <5>1, DidOwes
        <5> QED BY <2>4, <3>1, <4>1, <5>2
      <4>3. CASE turn[m].via # "inline"
        BY <2>4, <3>1, <4>1, <4>3 DEF Owed
      <4> QED BY <4>2, <4>3
    <3>3. CASE ~(At(m, "act") /\ Head(turn[m].todo) = "send")
      BY <2>10, <2>11, <3>1, <3>3 DEF TurnFails
    <3> QED BY <3>2, <3>3
  <2> QED BY <1>2, <2>5, <2>6, <2>7, <2>8, <2>9, <2>11 DEF TurnStep
<1>3. CASE ApiCrash
  <2> DEFINE lost == {m \in Messages : turn[m].via = "inline"
                                         /\ turn[m].at \notin {"done", "stale", "failed"}}
  <2>1. UNCHANGED <<runs, inlineCalls>> /\ Unrecord(lost)
    BY <1>3 DEF ApiCrash
  <2>2. \A n \in Messages : Owed(n) => n \in lost
    BY DEF Owed, At
  <2>3. \A n \in Messages : ~Owed(n)'
    <3>1. \A n \in Messages : n \in lost => turn'[n].at = "failed"
      BY <1>3 DEF ApiCrash, NoTurn
    <3>2. \A n \in Messages : n \notin lost => turn'[n] = turn[n]
      BY <1>3 DEF ApiCrash
    <3> QED BY <2>2, <3>1, <3>2 DEF Owed, At
  <2>4. ASSUME NEW c \in Deliveries
        PROVE  inlineCalls'[c] <= runs'[c] + unrecorded'[c] + Cardinality(OwedIn(c)')
    <3>1. {n \in lost : Owed(n) /\ Home(n) = c} = OwedIn(c)
      BY <2>2 DEF OwedIn
    <3>2. unrecorded'[c] = unrecorded[c] + Cardinality(OwedIn(c))
      BY <2>1, <3>1 DEF Unrecord
    <3>3. OwedIn(c)' = {}
      BY <2>3 DEF OwedIn
    <3>4. Cardinality(OwedIn(c)') = 0 /\ Cardinality(OwedIn(c)) \in Nat
      BY <3>3, OwedFinite, FS_EmptySet
    <3>5. inlineCalls[c] <= runs[c] + unrecorded[c] + Cardinality(OwedIn(c))
      BY DEF CallsAreCounted, OwedIn
    <3>6. inlineCalls[c] \in Nat /\ runs[c] \in Nat /\ unrecorded[c] \in Nat
      BY DEF CountShape
    <3> QED BY <2>1, <3>2, <3>4, <3>5, <3>6
  <2> QED BY <2>4 DEF CallsAreCounted, OwedIn
<1>4. CASE UNCHANGED inboundVars
  <2>1. /\ UNCHANGED <<runs, inlineCalls, unrecorded>>
        /\ \A n \in Messages : Owed(n)' <=> Owed(n)
    BY <1>4 DEF inboundVars, Owed, At
  <2> QED BY <2>1, NothingCounted
<1> QED BY <1>1, <1>2, <1>3, <1>4 DEF InboundNext

\* The invariant holds of every behaviour, fair or not.
LEMMA InvariantHolds == InboundInit /\ [][InboundNext]_inboundVars => []InboundInv
<1>1. InboundInit => InboundInv
  <2> SUFFICES ASSUME InboundInit PROVE InboundInv
    OBVIOUS
  <2>1. ~\E i \in DOMAIN log : TRUE
    BY DEF InboundInit
  <2>2. TurnShape
    <3>1. NoTurn \in Turns /\ OneRecord(NoTurn.todo)
      BY EmptyTurn, NoTries DEF NoTurn
    <3> QED BY <3>1 DEF InboundInit, TurnShape, NoTurn
  <2>3. HandlerShape /\ CountShape
    BY DEF InboundInit, HandlerShape, CountShape
  <2>4. LogShape
    BY <2>1 DEF InboundInit, LogShape
  <2>5. RowShape
    <3>1. faults \in 0 .. InboundFaults
      BY InboundAssumption DEF InboundInit
    <3>2. into \in [Deliveries -> Deliveries] /\ events \subseteq Messages
      BY DEF InboundInit
    <3>3. contactRow \in BOOLEAN /\ optedOut \in BOOLEAN
      BY DEF InboundInit
    <3> QED BY <3>1, <3>2, <3>3 DEF InboundInit, RowShape
  <2>6. Recorded
    BY <2>1 DEF InboundInit, Recorded, Stored, NoTurn
  <2>7. Placed /\ OneHandler /\ Attended
    BY DEF InboundInit, Placed, OneHandler, Attended, AfterEvent, AfterStore, BeforeTurn, InFlight
  <2>8. CallsAreCounted
    <3>1. \A c \in Deliveries : Cardinality(OwedIn(c)) \in Nat
      BY OwedFinite
    <3> QED BY <3>1 DEF InboundInit, CallsAreCounted, OwedIn
  <2> QED BY <2>2, <2>3, <2>4, <2>5, <2>6, <2>7, <2>8 DEF InboundInv, Shapes
<1>2. InboundInv /\ [InboundNext]_inboundVars => InboundInv'
  <2> SUFFICES ASSUME InboundInv, [InboundNext]_inboundVars PROVE InboundInv'
    OBVIOUS
  <2>1. TurnShape /\ HandlerShape /\ LogShape /\ RowShape /\ CountShape /\ Recorded
    BY DEF InboundInv, Shapes
  <2>2. Placed /\ OneHandler /\ Attended /\ CallsAreCounted
    BY DEF InboundInv
  <2>3. TurnShape' /\ HandlerShape' /\ LogShape' /\ RowShape' /\ CountShape'
    BY <2>1, TurnsKept, LogKept, RowsKept, CountsKept
  <2>4. Recorded' /\ Placed' /\ OneHandler' /\ Attended' /\ CallsAreCounted'
    BY <2>1, <2>2, <2>3, RecordedKept, PlacedKept, OneHandlerKept, AttendedKept, CountedKept
  <2> QED BY <2>3, <2>4 DEF InboundInv, Shapes
<1> QED BY <1>1, <1>2, PTL

-----------------------------------------------------------------------------
(* The results *)

\* What the invariant says includes the types.
LEMMA InboundMeansTypes == InboundInv => InboundTypeOK
<1> SUFFICES ASSUME InboundInv PROVE InboundTypeOK
  OBVIOUS
<1>1. TurnShape /\ HandlerShape /\ LogShape /\ RowShape /\ CountShape
  BY DEF InboundInv, Shapes
<1>2. \A i \in DOMAIN log : log[i] \in [msg : Messages, conv : Deliveries]
  <2> DEFINE S == [msg : Messages, conv : Deliveries]
  <2>1. log \in Seq(S)
    BY <1>1 DEF LogShape
  <2> HIDE DEF S
  <2>2. DOMAIN log = 1 .. Len(log)
    BY <2>1
  <2> QED BY <2>1, <2>2, ElementOfSeq DEF S
<1>3. events \subseteq {EventKey(d) : d \in Deliveries}
  BY <1>1 DEF RowShape, Messages, EventKey
<1>4. \A m \in Messages :
        /\ turn[m].via \in {"none", "job", "inline"} /\ turn[m].tries \in 0 .. JobAttempts - 1
        /\ turn[m].at \in {"none", "queued", "stale", "cap", "think", "act", "done", "failed"}
  BY <1>1 DEF TurnShape, Turns
<1> QED BY <1>1, <1>2, <1>3, <1>4 DEF RowShape, CountShape, HandlerShape, InboundTypeOK

\* Handlers, turns, the log and the rows stay where the code can be: a job is tried JobAttempts
\* times at most, and a conversation of a message exists.
THEOREM InboundTypeCorrect == InboundSpec => []InboundTypeOK
BY InvariantHolds, InboundMeansTypes, PTL DEF InboundSpec

\* Whatever the provider delivers again, and however often handlers, turns and jobs fail, a
\* delivery answered as a duplicate is of a message that is stored, with its request for no more
\* messages, or whose one handler is on its way or has failed; and every turn that reaches the
\* agent without the queue has its row (processEvolutionWebhook, processAiInline, recordAiRun).
THEOREM InboundCorrect == InboundSpec => []InboundHolds
<1>1. InboundInv => InboundHolds
  <2> SUFFICES ASSUME InboundInv PROVE InboundHolds
    OBVIOUS
  <2>1. ASSUME NEW d \in Deliveries, handler[d] = "duplicate",
               ~Stored(d[1]) \/ (d[1] \in OptOuts /\ ~optedOut)
        PROVE  \E e \in Deliveries : e[1] = d[1] /\ (handler[e] \in InFlight \/ handler[e] = "failed")
    <3>1. d[1] \in events
      BY <2>1 DEF InboundInv, Placed
    <3>2. PICK e \in Deliveries : e[1] = d[1] /\ handler[e] \in AfterEvent \cup {"failed"}
      BY <3>1 DEF InboundInv, Attended
    <3>3. handler[e] # "done"
      BY <2>1, <3>2 DEF InboundInv, Placed, AfterStore
    <3> QED BY <3>2, <3>3 DEF AfterEvent
  <2> QED BY <2>1 DEF InboundHolds, NothingLost, InboundInv
<1> QED BY <1>1, InvariantHolds, PTL DEF InboundSpec
=============================================================================
