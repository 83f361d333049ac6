-------------------------- MODULE QueryClientProofs --------------------------
(***************************************************************************)
(* Proofs about QueryClient for every number of calls and crashes, every   *)
(* request_retries and every app_mode.                                     *)
(***************************************************************************)
EXTENDS QueryClient, TLAPS

-----------------------------------------------------------------------------
(* The inductive invariant.                                                *)

Messages == [body : Calls \cup {Nothing}, to : [tcp : BOOLEAN, of : Daemons],
             open : BOOLEAN]
ReplyKinds == {"ok", "empty", "failed", "resend"}
Replies == [kind : ReplyKinds, call : Calls \cup {Nothing}]

\* Types beyond TypeOK.  Between two sends the message object is empty.
Typed ==
    /\ modes \in Seq(Modes) /\ call <= MaxCalls
    /\ request_retries \in Int
    /\ pc \in {"poll", "returned", "raised"}
    /\ retries_left \in Int /\ sends \in 0..MaxSends
    /\ message = Nothing
    /\ connected \in BOOLEAN
    /\ reply \in Replies \cup {NoReply}
    /\ result \in [kind : Kinds, call : Calls \cup {Nothing}]
    /\ wire \subseteq Messages
    /\ content \in [Daemons -> Seq(Calls)]
    /\ alive \in [Daemons -> BOOLEAN]
    /\ crashes \in Nat
    /\ executions \in [Calls -> Nat]
    /\ failed \subseteq 1..call
    /\ restarted \subseteq Daemons

\* Only the last message can be answered, and only to a caller that polls an open
\* socket; what it asks for, if anything, is the caller's own command.
OpenIsLast ==
    /\ \A m \in wire : m.open => connected /\ pc = "poll" /\ m.body \in {Nothing, call}
    /\ \A m, n \in wire : m.open /\ n.open => m = n
    /\ connected => pc = "poll"

\* The command of a call is on its way in at most one message, and only until it
\* is executed; it goes to the daemon that the call was meant for.
OneRequest ==
    /\ \A m \in wire : m.body # Nothing =>
          /\ m.body <= call
          /\ executions[m.body] = 0
          /\ m.to = Address(ClientEnv, Target(modes[m.body]))
    /\ \A m, n \in wire : m.body # Nothing /\ m.body = n.body => m = n
    /\ \A c \in Calls : executions[c] <= 1
    /\ \A c \in Calls : c > call => executions[c] = 0

\* A reply on its way is for the call in progress.
ReplyForCall ==
    reply # NoReply =>
        /\ connected
        /\ reply.kind \in {"ok", "empty", "failed"} => reply.call = call
        /\ reply.kind \in {"ok", "empty"} => call > 0 /\ executions[call] = 1

\* While the caller polls, what it has sent and what is left add up; a counter
\* that starts at zero or below never comes back to it.
Counted ==
    pc = "poll" =>
        /\ call > 0
        /\ request_retries < MaxSends
        /\ sends >= 1
        /\ request_retries > 0 =>
              retries_left >= 1 /\ sends + retries_left = request_retries + 1
        /\ request_retries <= 0 => retries_left <= 0

\* So a call sends no more messages than request_retries says, and gives up after
\* exactly so many: the first message is counted among them.
SendsCounted ==
    /\ request_retries > 0 => sends <= request_retries
    /\ pc = "returned" /\ result.kind = "not responding" => sends = request_retries

\* A call that has ended and is not counted as failed was executed.
EndedOrFailed ==
    \A c \in 1..call : c \in failed \/ executions[c] = 1 \/ (c = call /\ pc = "poll")

\* The calls that a daemon holds, and that it holds them in the order of the calls.
Held(s) == {s[i] : i \in 1..Len(s)}
Ascending(s) == \A i, j \in 1..Len(s) : i < j => s[i] < s[j]

\* The daemon that a call's command was sent to.
MeantFor(d, c) == Listens(d, Address(ClientEnv, Target(modes[c])))

\* A daemon holds what it has executed, or lost it before all that it holds.
KeptOrLost(d, c) ==
    c \in Held(content[d]) \/ (d \in restarted /\ \A x \in Held(content[d]) : c < x)

\* What a daemon holds was executed; and as long as no call but the last has
\* failed, it is in order, and what was executed is kept or lost.
Ordered ==
    /\ \A d \in Daemons : \A c \in Held(content[d]) : executions[c] = 1
    /\ failed \subseteq {call} =>
          \A d \in Daemons :
             /\ Ascending(content[d])
             /\ \A c \in 1..call : MeantFor(d, c) /\ executions[c] = 1 => KeptOrLost(d, c)

Inv ==
    /\ Typed
    /\ OpenIsLast
    /\ OneRequest
    /\ ReplyForCall
    /\ Counted
    /\ EndedOrFailed
    /\ Ordered
    /\ ReplyIsOwn
    /\ SendsCounted

-----------------------------------------------------------------------------
(* The steps of the caller.                                                *)

\* Between the last attempt and the report that the daemon does not respond.
GiveUp ==
    /\ pc = "poll"
    /\ retries_left' = Decrement(retries_left) /\ Exhausted(retries_left')
    /\ Return("not responding", Nothing)
    /\ reply' = NoReply
    /\ UNCHANGED <<modes, request_retries, daemonVars>>

\* After a time-out or a "resend", another attempt.
Again(open) ==
    /\ pc = "poll"
    /\ retries_left' = Decrement(retries_left) /\ ~Exhausted(retries_left')
    /\ Retry(open)
    /\ reply' = NoReply
    /\ UNCHANGED <<modes, request_retries, daemonVars>>

\* The command's own reply.
Answered ==
    /\ pc = "poll" /\ connected /\ reply # NoReply /\ reply.kind # "resend"
    /\ Return(reply.kind, reply.call)
    /\ reply' = NoReply
    /\ UNCHANGED <<modes, request_retries, retries_left, daemonVars>>

\* What a poll comes to.
LEMMA PollCases ==
  ASSUME Poll
  PROVE  GiveUp \/ (\E open \in BOOLEAN : Again(open)) \/ Answered \/ StdinReadable
BY DEF Poll, Timeout, ProcessRequest, GiveUp, Again, Answered

\* Closing a socket changes no message but for its reply.
LEMMA ClosedFacts ==
  ASSUME NEW w \in SUBSET Messages
  PROVE  /\ Closed(w) \subseteq Messages
         /\ \A m \in Closed(w) : ~m.open
         /\ \A m \in Closed(w) : \E n \in w : n.body = m.body /\ n.to = m.to
         /\ \A m, n \in Closed(w) : m.body = n.body /\ m.to = n.to => m = n
BY DEF Closed, Messages

\* What a socket sends is a message.
LEMMA MessageType ==
  ASSUME NEW body \in Calls \cup {Nothing}, NEW mode, NEW open \in BOOLEAN
  PROVE  /\ Message(body, mode, open) \in Messages
         /\ Message(body, mode, open).body = body
         /\ Message(body, mode, open).open = open
         /\ Message(body, mode, open).to = Address(ClientEnv, Target(mode))
<1>1. IsUseTcp(ClientEnv) \in BOOLEAN
  BY Zenon DEF IsUseTcp
<1>2. Target(mode) \in Daemons
  BY DEF Target, Daemons
<1>3. Address(ClientEnv, Target(mode)) \in [tcp : BOOLEAN, of : Daemons]
  BY <1>1, <1>2 DEF Address
<1> QED BY <1>3 DEF Message, Messages

\* The bounds are numbers.
LEMMA Bounds ==
  /\ MaxCalls \in Nat /\ MaxCrashes \in Nat /\ MaxSends \in Nat /\ MaxSends >= 1
  /\ \A retries \in Retries : retries \in Int /\ retries < MaxSends
BY ClientAssumption

\* A sequence and one that is longer by an element.
LEMMA Appended ==
  ASSUME NEW S, NEW s \in Seq(S), NEW x \in S
  PROVE  /\ Append(s, x) \in Seq(S)
         /\ Len(s) \in Nat
         /\ Len(Append(s, x)) = Len(s) + 1
         /\ Append(s, x)[Len(s) + 1] = x
         /\ \A i \in 1..Len(s) : Append(s, x)[i] = s[i]
OBVIOUS

\* The calls are numbered from 1.
LEMMA CallFacts ==
  ASSUME Typed
  PROVE  call \in Nat /\ call <= MaxCalls
BY Bounds, Appended DEF Typed, call, Calls

\* A new call.
LEMMA NewCall ==
  ASSUME Typed, call < MaxCalls, NEW mode \in Modes, modes' = Append(modes, mode)
  PROVE  /\ call' = call + 1 /\ call + 1 \in Calls /\ call + 1 <= MaxCalls
         /\ modes' \in Seq(Modes)
         /\ modes'[call + 1] = mode
         /\ \A c \in 1..call : modes'[c] = modes[c]
<1>1. modes \in Seq(Modes)
  BY DEF Typed
<1>2. /\ modes' \in Seq(Modes) /\ Len(modes) \in Nat /\ Len(modes') = Len(modes) + 1
      /\ modes'[Len(modes) + 1] = mode
      /\ \A i \in 1..Len(modes) : modes'[i] = modes[i]
  BY <1>1, Appended
<1> QED BY <1>2, Bounds DEF call, Calls

\* What Typed says of the values that the steps compare.
LEMMA TypeFacts ==
  ASSUME Typed
  PROVE  /\ request_retries \in Int /\ retries_left \in Int
         /\ sends \in Nat /\ sends <= MaxSends
         /\ reply # NoReply => reply.kind \in ReplyKinds /\ reply.call \in Calls \cup {Nothing}
         /\ wire \in SUBSET Messages
         /\ \A m \in wire : m.body \in Calls \cup {Nothing} /\ m.open \in BOOLEAN
<1>1. reply # NoReply => reply \in Replies
  BY DEF Typed
<1>2. wire \in SUBSET Messages
  BY DEF Typed
<1>3. \A m \in wire : m.body \in Calls \cup {Nothing} /\ m.open \in BOOLEAN
  BY <1>2 DEF Messages
<1> QED BY <1>1, <1>2, <1>3, Bounds DEF Typed, Replies

\* Closing the sockets leaves one message to a command where there was one.
LEMMA ClosedKept ==
  ASSUME wire \in SUBSET Messages, OneRequest
  PROVE  /\ \A m \in Closed(wire) : m.body # Nothing =>
               /\ m.body <= call /\ executions[m.body] = 0
               /\ m.to = Address(ClientEnv, Target(modes[m.body]))
         /\ \A m, n \in Closed(wire) : m.body # Nothing /\ m.body = n.body => m = n
<1>1. \A m \in Closed(wire) : m.body # Nothing =>
         /\ m.body <= call /\ executions[m.body] = 0
         /\ m.to = Address(ClientEnv, Target(modes[m.body]))
  BY ClosedFacts DEF OneRequest
<1>2. \A m, n \in Closed(wire) : m.body # Nothing /\ m.body = n.body => m = n
  BY <1>1, ClosedFacts
<1> QED BY <1>1, <1>2

\* What a longer sequence holds.
LEMMA HeldAppended ==
  ASSUME NEW S, NEW s \in Seq(S), NEW x \in S
  PROVE  Held(Append(s, x)) = Held(s) \cup {x}
<1>1. /\ Len(s) \in Nat /\ Len(Append(s, x)) = Len(s) + 1
      /\ Append(s, x)[Len(s) + 1] = x
      /\ \A i \in 1..Len(s) : Append(s, x)[i] = s[i]
  BY Appended
<1>2. 1..(Len(s) + 1) = (1..Len(s)) \cup {Len(s) + 1}
  BY <1>1
<1> QED BY <1>1, <1>2 DEF Held

\* It stays in order when what is added is greater than all there is.
LEMMA AscendingAppended ==
  ASSUME NEW S \in SUBSET Nat, NEW s \in Seq(S), NEW x \in S,
         Ascending(s), \A y \in Held(s) : y < x
  PROVE  Ascending(Append(s, x))
<1>1. /\ Len(s) \in Nat /\ Len(Append(s, x)) = Len(s) + 1
      /\ Append(s, x)[Len(s) + 1] = x
      /\ \A i \in 1..Len(s) : Append(s, x)[i] = s[i]
  BY Appended
<1>2. \A i \in 1..Len(s) : s[i] < x
  BY DEF Held
<1> SUFFICES ASSUME NEW i \in 1..(Len(s) + 1), NEW j \in 1..(Len(s) + 1), i < j
             PROVE  Append(s, x)[i] < Append(s, x)[j]
  BY <1>1 DEF Ascending
<1>3. CASE j = Len(s) + 1
  BY <1>1, <1>2, <1>3
<1>4. CASE j # Len(s) + 1
  <2>1. i \in 1..Len(s) /\ j \in 1..Len(s)
    BY <1>1, <1>4
  <2> QED BY <1>1, <2>1 DEF Ascending
<1> QED BY <1>3, <1>4

\* A step that executes nothing and loses nothing.
LEMMA OrderedKept ==
  ASSUME Ordered, UNCHANGED <<modes, content, executions, restarted>>, failed \subseteq failed'
  PROVE  Ordered'
<1>1. call' = call
  BY DEF call
<1>2. failed' \subseteq {call'} => failed \subseteq {call}
  BY <1>1
<1> QED BY <1>1, <1>2 DEF Ordered, MeantFor, KeptOrLost

\* A daemon that ends: it has lost what it held, and holds nothing after it.
LEMMA OrderedEnds ==
  ASSUME Ordered, content \in [Daemons -> Seq(Calls)], NEW d \in Daemons, Ends(d)
  PROVE  Ordered'
<1>1. /\ content' = [content EXCEPT ![d] = <<>>] /\ restarted' = restarted \cup {d}
      /\ UNCHANGED <<modes, executions, failed>>
  BY DEF Ends, clientVars
<1>2. call' = call
  BY <1>1 DEF call
<1>3. content'[d] = <<>> /\ \A e \in Daemons \ {d} : content'[e] = content[e]
  BY <1>1
<1>4. Held(<<>>) = {} /\ Ascending(<<>>)
  BY DEF Held, Ascending
<1>5. \A e \in Daemons : Held(content'[e]) \subseteq Held(content[e])
  BY <1>3, <1>4
<1>6. \A e \in Daemons : Ascending(content[e]) => Ascending(content'[e])
  BY <1>3, <1>4
<1>7. \A e \in Daemons : \A c \in 1..call : KeptOrLost(e, c) => KeptOrLost(e, c)'
  BY <1>1, <1>3, <1>4 DEF KeptOrLost
<1> QED BY <1>1, <1>2, <1>5, <1>6, <1>7 DEF Ordered, MeantFor

-----------------------------------------------------------------------------
(* Every step keeps every part of the invariant.                           *)

\* Types: that a call number stays in 1..MaxCalls, and that a retry finds the message
\* object empty.
LEMMA TypedStep ==
  ASSUME Inv, [Next]_vars
  PROVE  Typed'
<1> USE DEF clientVars, daemonVars
<1>0. /\ Typed /\ Counted /\ wire \in SUBSET Messages
      /\ request_retries \in Int /\ retries_left \in Int /\ sends \in Nat /\ sends <= MaxSends
      /\ message = Nothing
      /\ content \in [Daemons -> Seq(Calls)] /\ alive \in [Daemons -> BOOLEAN]
      /\ executions \in [Calls -> Nat] /\ crashes \in Nat
      /\ call \in Nat /\ call <= MaxCalls /\ failed \subseteq 1..call
      /\ reply \in Replies \cup {NoReply}
      /\ \A m \in wire : m.body \in Calls \cup {Nothing}
  BY TypeFacts, CallFacts DEF Inv, Typed, Replies
<1>1. ASSUME NEW mode \in Modes, NEW retries \in Retries, Query(mode, retries)
     PROVE  Typed'
  <2>1. /\ modes' \in Seq(Modes) /\ call' = call + 1 /\ call + 1 <= MaxCalls
        /\ call + 1 \in Calls
    BY <1>1, NewCall DEF Query, Inv
  <2>2. wire' \subseteq Messages
    <3>1. wire' = Closed(wire) \cup {Message(call + 1, mode, TRUE)}
      BY <1>1 DEF Query, Sent
    <3>2. call + 1 \in Calls \cup {Nothing}
      BY <2>1
    <3>3. Message(call + 1, mode, TRUE) \in Messages
      BY <3>2, MessageType
    <3> QED BY <1>0, <3>1, <3>3, ClosedFacts
  <2>3. message' = Nothing /\ connected' \in BOOLEAN
    BY <1>1, Zenon DEF Query, Sent, Emptied
  <2>4. request_retries' \in Int /\ retries_left' \in Int /\ sends' \in 0..MaxSends
    <3>1. /\ request_retries' = retries /\ sends' = 1 /\ retries_left' \in {-1, retries}
          /\ retries \in Int
      BY <1>1, Bounds DEF Query
    <3> QED BY <3>1, Bounds
  <2>5. pc' = "poll" /\ result' \in [kind : Kinds, call : Calls \cup {Nothing}]
    BY <1>1 DEF Query, NoReply, Kinds
  <2>6. failed' \subseteq 1..call'
    <3>1. failed' = failed
      BY <1>1 DEF Query
    <3>2. 1..call \subseteq 1..call'
      BY <1>0, <2>1
    <3> QED BY <1>0, <3>1, <3>2
  <2> QED BY <1>0, <1>1, <2>1, <2>2, <2>3, <2>4, <2>5, <2>6 DEF Typed, Query
<1>2. ASSUME GiveUp PROVE Typed'
  <2>1. /\ pc = "poll" /\ pc' = "returned" /\ reply' = NoReply
        /\ UNCHANGED <<modes, request_retries, message, sends, content, alive, crashes,
                       executions, restarted>>
    BY <1>2 DEF GiveUp, Return
  <2>2. wire' = Closed(wire) /\ wire' \subseteq Messages
    BY <1>0, <1>2, ClosedFacts DEF GiveUp, Return
  <2>3. connected' \in BOOLEAN
    BY <1>2, Zenon DEF GiveUp, Return
  <2>4. retries_left' = 0
    BY <1>2 DEF GiveUp, Exhausted
  <2>5. result' \in [kind : Kinds, call : Calls \cup {Nothing}]
    BY <1>2 DEF GiveUp, Return, Kinds
  <2>6. failed' = failed \cup {call} /\ call' = call
    BY <1>2 DEF GiveUp, Return, call
  <2>7. call \in 1..call
    BY <1>0, <2>1 DEF Counted
  <2> QED BY <1>0, <2>1, <2>2, <2>3, <2>4, <2>5, <2>6, <2>7 DEF Typed
<1>3. ASSUME NEW open \in BOOLEAN, Again(open) PROVE Typed'
  <2>1. wire' \subseteq Messages
    <3>1. wire' = Closed(wire) \cup {Message(Nothing, modes[call], open)}
      BY <1>0, <1>3 DEF Again, Retry, Sent
    <3>2. Message(Nothing, modes[call], open) \in Messages
      BY MessageType
    <3> QED BY <1>0, <3>1, <3>2, ClosedFacts
  <2>2. retries_left' \in Int
    BY <1>0, <1>3 DEF Again, Decrement
  <2>3. sends' \in 0..MaxSends
    <3>1. sends' = IF sends < MaxSends THEN sends + 1 ELSE sends
      BY <1>3 DEF Again, Retry
    <3> QED BY <1>0, <3>1, Bounds
  <2>4. message' = Nothing /\ connected' \in BOOLEAN
    BY <1>3 DEF Again, Retry, Sent, Emptied
  <2> QED BY <1>0, <1>3, <2>1, <2>2, <2>3, <2>4 DEF Typed, Again, Retry, call
<1>4. ASSUME Answered PROVE Typed'
  <2>1. wire' = Closed(wire) /\ wire' \subseteq Messages
    BY <1>0, <1>4, ClosedFacts DEF Answered, Return
  <2>2. connected' \in BOOLEAN
    BY <1>4, Zenon DEF Answered, Return
  <2>3. result' \in [kind : Kinds, call : Calls \cup {Nothing}]
    BY <1>0, <1>4 DEF Answered, Return, Kinds, Replies, ReplyKinds
  <2>4. failed' \subseteq failed \cup {call} /\ call' = call /\ call \in 1..call
    BY <1>0, <1>4 DEF Answered, Return, Counted, call
  <2> QED BY <1>0, <1>4, <2>1, <2>2, <2>3, <2>4 DEF Typed, Answered, Return
<1>5. ASSUME StdinReadable PROVE Typed'
  <2>1. failed' = failed \cup {call} /\ call' = call /\ call \in 1..call
    BY <1>0, <1>5 DEF StdinReadable, Counted, call
  <2> QED BY <1>0, <1>5, <2>1 DEF Typed, StdinReadable
<1>6. ASSUME NEW m \in wire, Drop(m) PROVE Typed'
  BY <1>0, <1>6 DEF Typed, Drop, call
<1>7. ASSUME NEW d \in Daemons, NEW m \in wire, RefuseMessage(d, m) PROVE Typed'
  <2>1. reply' \in Replies \cup {NoReply}
    BY <1>0, <1>7 DEF RefuseMessage, Answer, Replies, ReplyKinds
  <2> QED BY <1>0, <1>7, <2>1 DEF Typed, RefuseMessage, call, Replies
<1>8. ASSUME NEW d \in Daemons, NEW m \in wire, Execute(d, m) PROVE Typed'
  <2>1. m.body \in Calls
    BY <1>0, <1>8 DEF Execute
  <2>2. content' \in [Daemons -> Seq(Calls)]
    <3>1. Append(content[d], m.body) \in Seq(Calls)
      BY <1>0, <2>1, Appended
    <3>2. content' = [content EXCEPT ![d] = Append(content[d], m.body)]
      BY <1>8 DEF Execute, Populated
    <3> QED BY <1>0, <3>1, <3>2
  <2>3. executions' \in [Calls -> Nat]
    <3>1. executions' = [executions EXCEPT ![m.body] = @ + 1]
      BY <1>8 DEF Execute
    <3> QED BY <1>0, <2>1, <3>1
  <2>4. reply' \in Replies \cup {NoReply}
    BY <1>0, <1>8, <2>1 DEF Execute, Answer, Replies, ReplyKinds
  <2> QED BY <1>0, <1>8, <2>2, <2>3, <2>4 DEF Typed, Execute, call, Replies
<1>9. ASSUME NEW d \in Daemons, NEW m \in wire, FailCommand(d, m) PROVE Typed'
  <2>1. content' \in [Daemons -> Seq(Calls)]
    <3>1. <<>> \in Seq(Calls)
      OBVIOUS
    <3>2. content' = [content EXCEPT ![d] = <<>>]
      BY <1>9 DEF FailCommand, Ends
    <3> QED BY <1>0, <3>1, <3>2
  <2>2. alive' \in [Daemons -> BOOLEAN] /\ crashes' \in Nat
    BY <1>0, <1>9 DEF FailCommand, Ends
  <2>3. reply' \in Replies \cup {NoReply}
    BY <1>0, <1>9 DEF FailCommand, Answer, Replies, ReplyKinds
  <2> QED BY <1>0, <1>9, <2>1, <2>2, <2>3 DEF Typed, FailCommand, Ends, call, Replies
<1>10. ASSUME NEW d \in Daemons, Crash(d) PROVE Typed'
  <2>1. content' \in [Daemons -> Seq(Calls)]
    <3>1. <<>> \in Seq(Calls)
      OBVIOUS
    <3>2. content' = [content EXCEPT ![d] = <<>>]
      BY <1>10 DEF Crash, Ends
    <3> QED BY <1>0, <3>1, <3>2
  <2>2. alive' \in [Daemons -> BOOLEAN] /\ crashes' \in Nat
    BY <1>0, <1>10 DEF Crash, Ends
  <2>3. reply' \in Replies \cup {NoReply} /\ wire' \subseteq Messages
    BY <1>0, <1>10 DEF Crash
  <2> QED BY <1>0, <1>10, <2>1, <2>2, <2>3 DEF Typed, Crash, Ends, call, Replies
<1>11. ASSUME NEW d \in Daemons, Restart(d) PROVE Typed'
  BY <1>0, <1>11 DEF Typed, Restart, call
<1>12. ASSUME UNCHANGED vars PROVE Typed'
  BY <1>0, <1>12 DEF Typed, vars, call
<1> QED
  BY <1>1, <1>2, <1>3, <1>4, <1>5, <1>6, <1>7, <1>8, <1>9, <1>10, <1>11, <1>12,
     PollCases DEF Next

\* Each send closes what was sent before.
LEMMA OpenIsLastStep ==
  ASSUME Inv, [Next]_vars
  PROVE  OpenIsLast'
<1> USE DEF clientVars
<1>0. /\ wire \in SUBSET Messages /\ OpenIsLast
      /\ \A m \in wire : m.body \in Calls \cup {Nothing} /\ m.open \in BOOLEAN
  BY TypeFacts DEF Inv
<1>1. ASSUME NEW mode \in Modes, NEW retries \in Retries, Query(mode, retries)
     PROVE  OpenIsLast'
  <2>1. call' = call + 1 /\ call + 1 \in Calls
    BY <1>1, NewCall DEF Query, Inv
  <2>2. /\ wire' = Closed(wire) \cup {Message(call + 1, mode, TRUE)}
        /\ connected' /\ pc' = "poll"
    BY <1>1 DEF Query, Sent
  <2>3. \A m \in wire' : m.open => m = Message(call + 1, mode, TRUE)
    BY <1>0, <2>2, ClosedFacts
  <2>4. Message(call + 1, mode, TRUE).body = call'
    BY <2>1, MessageType
  <2> QED BY <2>2, <2>3, <2>4 DEF OpenIsLast
<1>2. ASSUME GiveUp PROVE OpenIsLast'
  <2>1. wire' = Closed(wire) /\ ~connected'
    BY <1>2 DEF GiveUp, Return
  <2> QED BY <1>0, <2>1, ClosedFacts DEF OpenIsLast
<1>3. ASSUME NEW open \in BOOLEAN, Again(open) PROVE OpenIsLast'
  <2>1. message = Nothing /\ Nothing \in Calls \cup {Nothing}
    BY DEF Inv, Typed
  <2>2. /\ wire' = Closed(wire) \cup {Message(Nothing, modes[call], open)}
        /\ connected' = open /\ pc' = "poll"
    BY <1>3, <2>1 DEF Again, Retry, Sent
  <2>3. \A m \in wire' : m.open => m = Message(Nothing, modes[call], open)
    BY <1>0, <2>2, ClosedFacts
  <2>4. /\ Message(Nothing, modes[call], open).body = Nothing
        /\ Message(Nothing, modes[call], open).open = open
    BY <2>1, MessageType
  <2> QED BY <2>2, <2>3, <2>4 DEF OpenIsLast
<1>4. ASSUME Answered PROVE OpenIsLast'
  <2>1. wire' = Closed(wire) /\ ~connected'
    BY <1>4 DEF Answered, Return
  <2> QED BY <1>0, <2>1, ClosedFacts DEF OpenIsLast
<1>5. ASSUME StdinReadable PROVE OpenIsLast'
  BY <1>0, <1>5 DEF OpenIsLast, StdinReadable, call
<1>6. ASSUME NEW m \in wire, Drop(m) PROVE OpenIsLast'
  BY <1>0, <1>6 DEF OpenIsLast, Drop, call
<1>7. ASSUME NEW d \in Daemons, NEW m \in wire, RefuseMessage(d, m) PROVE OpenIsLast'
  BY <1>0, <1>7 DEF OpenIsLast, RefuseMessage, call
<1>8. ASSUME NEW d \in Daemons, NEW m \in wire, Execute(d, m) PROVE OpenIsLast'
  BY <1>0, <1>8 DEF OpenIsLast, Execute, call
<1>9. ASSUME NEW d \in Daemons, NEW m \in wire, FailCommand(d, m) PROVE OpenIsLast'
  BY <1>0, <1>9 DEF OpenIsLast, FailCommand, Ends, call
<1>10. ASSUME NEW d \in Daemons, Crash(d) PROVE OpenIsLast'
  BY <1>0, <1>10 DEF OpenIsLast, Crash, Ends, call
<1>11. ASSUME NEW d \in Daemons, Restart(d) PROVE OpenIsLast'
  BY <1>0, <1>11 DEF OpenIsLast, Restart, call
<1>12. ASSUME UNCHANGED vars PROVE OpenIsLast'
  BY <1>0, <1>12 DEF OpenIsLast, vars, call
<1> QED
  BY <1>1, <1>2, <1>3, <1>4, <1>5, <1>6, <1>7, <1>8, <1>9, <1>10, <1>11, <1>12,
     PollCases DEF Next

\* Only Query sends a command, and its number is new.
LEMMA OneRequestStep ==
  ASSUME Inv, [Next]_vars
  PROVE  OneRequest'
<1> USE DEF clientVars, daemonVars
<1>0. /\ wire \in SUBSET Messages /\ OneRequest
      /\ \A m \in wire : m.body \in Calls \cup {Nothing} /\ m.open \in BOOLEAN
      /\ executions \in [Calls -> Nat]
      /\ call \in Nat /\ Calls \subseteq Nat \ {Nothing}
  <2>1. Typed /\ OneRequest
    BY DEF Inv
  <2>2. Calls \subseteq Nat \ {Nothing}
    BY Bounds DEF Calls, Nothing
  <2> QED BY <2>1, <2>2, TypeFacts, CallFacts DEF Typed
<1>1. ASSUME NEW mode \in Modes, NEW retries \in Retries, Query(mode, retries)
     PROVE  OneRequest'
  <2>1. /\ call' = call + 1 /\ call + 1 \in Calls /\ modes'[call + 1] = mode
        /\ \A c \in 1..call : modes'[c] = modes[c]
    BY <1>1, NewCall DEF Query, Inv
  <2> DEFINE new == Message(call + 1, mode, TRUE)
  <2>2. /\ wire' = Closed(wire) \cup {new} /\ executions' = executions
    BY <1>1 DEF Query, Sent
  <2>3. new.body = call + 1 /\ new.to = Address(ClientEnv, Target(mode))
    <3>1. call + 1 \in Calls \cup {Nothing}
      BY <2>1
    <3> HIDE DEF new
    <3>2. new = Message(call + 1, mode, TRUE)
      BY DEF new
    <3> QED BY <3>1, <3>2, MessageType
  <2>4. \A m \in Closed(wire) : m.body # Nothing => m.body \in 1..call /\ m.body # call + 1
    <3>1. \A m \in Closed(wire) : m.body # Nothing => m.body \in Calls /\ m.body <= call
      BY <1>0, ClosedFacts, ClosedKept DEF Messages
    <3>2. \A c \in Calls : c <= call => c \in 1..call /\ c # call + 1
      BY <1>0, Bounds DEF Calls
    <3> QED BY <3>1, <3>2
  <2>5. \A m, n \in Closed(wire) : m.body # Nothing /\ m.body = n.body => m = n
    BY <1>0, ClosedKept
  <2> HIDE DEF new
  <2>6. \A m \in wire' : m = new \/ m \in Closed(wire)
    BY <2>2
  <2>7. \A m, n \in wire' : m.body # Nothing /\ m.body = n.body => m = n
    BY <2>3, <2>4, <2>5, <2>6
  <2>8. ASSUME NEW m \in wire', m.body # Nothing
        PROVE  /\ m.body <= call' /\ executions'[m.body] = 0
               /\ m.to = Address(ClientEnv, Target(modes'[m.body]))
    <3>1. CASE m = new
      <4>1. m.body = call + 1 /\ m.to = Address(ClientEnv, Target(mode))
        BY <2>3, <3>1
      <4>2. executions[call + 1] = 0
        BY <1>0, <2>1 DEF OneRequest
      <4> QED BY <1>0, <2>1, <2>2, <4>1, <4>2
    <3>2. CASE m \in Closed(wire)
      <4>1. m.body \in 1..call
        BY <2>4, <2>8, <3>2
      <4>2. executions[m.body] = 0 /\ m.to = Address(ClientEnv, Target(modes[m.body]))
        BY <1>0, <2>8, <3>2, ClosedKept
      <4> QED BY <1>0, <2>1, <2>2, <4>1, <4>2
    <3> QED BY <2>6, <3>1, <3>2
  <2>9. \A c \in Calls : executions'[c] <= 1 /\ (c > call' => executions'[c] = 0)
    <3>1. \A c \in Calls : executions[c] <= 1 /\ (c > call => executions[c] = 0)
      BY <1>0 DEF OneRequest
    <3>2. \A c \in Calls : c > call + 1 => c > call
      BY <1>0
    <3> QED BY <2>1, <2>2, <3>1, <3>2
  <2> QED BY <2>7, <2>8, <2>9 DEF OneRequest
<1>2. ASSUME GiveUp PROVE OneRequest'
  <2>1. wire' = Closed(wire) /\ executions' = executions /\ modes' = modes
    BY <1>2 DEF GiveUp, Return
  <2> QED BY <1>0, <2>1, ClosedKept DEF OneRequest, call
<1>3. ASSUME NEW open \in BOOLEAN, Again(open) PROVE OneRequest'
  <2>1. message = Nothing /\ Nothing \in Calls \cup {Nothing}
    BY DEF Inv, Typed
  <2>2. /\ wire' = Closed(wire) \cup {Message(Nothing, modes[call], open)}
        /\ executions' = executions /\ modes' = modes
    BY <1>3, <2>1 DEF Again, Retry, Sent
  <2>3. \A m \in wire' : m.body # Nothing => m \in Closed(wire)
    BY <2>1, <2>2, MessageType
  <2> QED BY <1>0, <2>2, <2>3, ClosedKept DEF OneRequest, call
<1>4. ASSUME Answered PROVE OneRequest'
  <2>1. wire' = Closed(wire) /\ executions' = executions /\ modes' = modes
    BY <1>4 DEF Answered, Return
  <2> QED BY <1>0, <2>1, ClosedKept DEF OneRequest, call
<1>5. ASSUME StdinReadable PROVE OneRequest'
  BY <1>0, <1>5 DEF OneRequest, StdinReadable, call
<1>6. ASSUME NEW m \in wire, Drop(m) PROVE OneRequest'
  BY <1>0, <1>6 DEF OneRequest, Drop, call
<1>7. ASSUME NEW d \in Daemons, NEW m \in wire, RefuseMessage(d, m) PROVE OneRequest'
  BY <1>0, <1>7 DEF OneRequest, RefuseMessage, call
<1>8. ASSUME NEW d \in Daemons, NEW m \in wire, Execute(d, m) PROVE OneRequest'
  <2>1. /\ wire' = wire \ {m} /\ m.body \in Calls /\ modes' = modes
        /\ executions' = [executions EXCEPT ![m.body] = @ + 1]
    BY <1>0, <1>8 DEF Execute
  <2>2. executions[m.body] = 0 /\ m.body <= call
    BY <1>0, <2>1 DEF OneRequest
  <2>3. /\ executions'[m.body] = 1
        /\ \A c \in Calls \ {m.body} : executions'[c] = executions[c]
    BY <1>0, <2>1, <2>2
  <2>4. \A n \in wire' : n.body # Nothing => n.body \in Calls \ {m.body}
    BY <1>0, <2>1 DEF OneRequest
  <2> QED BY <1>0, <2>1, <2>2, <2>3, <2>4 DEF OneRequest, call
<1>9. ASSUME NEW d \in Daemons, NEW m \in wire, FailCommand(d, m) PROVE OneRequest'
  BY <1>0, <1>9 DEF OneRequest, FailCommand, Ends, call
<1>10. ASSUME NEW d \in Daemons, Crash(d) PROVE OneRequest'
  BY <1>0, <1>10 DEF OneRequest, Crash, Ends, call
<1>11. ASSUME NEW d \in Daemons, Restart(d) PROVE OneRequest'
  BY <1>0, <1>11 DEF OneRequest, Restart, call
<1>12. ASSUME UNCHANGED vars PROVE OneRequest'
  BY <1>0, <1>12 DEF OneRequest, vars, call
<1> QED
  BY <1>1, <1>2, <1>3, <1>4, <1>5, <1>6, <1>7, <1>8, <1>9, <1>10, <1>11, <1>12,
     PollCases DEF Next

\* Only the open message is answered, and that one is of the call in progress.
LEMMA ReplyForCallStep ==
  ASSUME Inv, [Next]_vars
  PROVE  ReplyForCall'
<1> USE DEF clientVars, daemonVars
<1>0. /\ wire \in SUBSET Messages /\ OpenIsLast /\ OneRequest /\ ReplyForCall
      /\ \A m \in wire : m.body \in Calls \cup {Nothing} /\ m.open \in BOOLEAN
      /\ executions \in [Calls -> Nat]
      /\ call \in Nat /\ Calls \subseteq Nat \ {Nothing}
      /\ Nothing = 0 /\ NoReply = [kind |-> "none", call |-> Nothing]
  BY TypeFacts, CallFacts, Bounds DEF Inv, Typed, Calls, Nothing, NoReply
<1>1. ASSUME NEW mode \in Modes, NEW retries \in Retries, Query(mode, retries)
     PROVE  ReplyForCall'
  <2>1. reply = NoReply
    BY <1>0, <1>1 DEF Query, ReplyForCall, OpenIsLast
  <2> QED BY <1>1, <2>1 DEF Query, ReplyForCall
<1>2. ASSUME GiveUp PROVE ReplyForCall'
  BY <1>0, <1>2 DEF ReplyForCall, GiveUp, Return, call
<1>3. ASSUME NEW open \in BOOLEAN, Again(open) PROVE ReplyForCall'
  BY <1>0, <1>3 DEF ReplyForCall, Again, call
<1>4. ASSUME Answered PROVE ReplyForCall'
  BY <1>0, <1>4 DEF ReplyForCall, Answered, Return, call
<1>5. ASSUME StdinReadable PROVE ReplyForCall'
  BY <1>0, <1>5 DEF ReplyForCall, StdinReadable, call
<1>6. ASSUME NEW m \in wire, Drop(m) PROVE ReplyForCall'
  BY <1>0, <1>6 DEF ReplyForCall, Drop, call
<1>7. ASSUME NEW d \in Daemons, NEW m \in wire, RefuseMessage(d, m) PROVE ReplyForCall'
  <2>1. reply' = reply \/ (reply' = [kind |-> "resend", call |-> m.body] /\ m.open)
    BY <1>7 DEF RefuseMessage, Answer
  <2> QED BY <1>0, <1>7, <2>1 DEF RefuseMessage, ReplyForCall, OpenIsLast, call
<1>8. ASSUME NEW d \in Daemons, NEW m \in wire, Execute(d, m) PROVE ReplyForCall'
  <2>1. /\ m.body \in Calls /\ modes' = modes /\ connected' = connected
        /\ executions' = [executions EXCEPT ![m.body] = @ + 1]
    BY <1>0, <1>8 DEF Execute
  <2>2. executions[m.body] = 0
    BY <1>0, <2>1 DEF OneRequest
  <2>3. CASE m.open
    <3>1. \E kind \in {"ok", "empty"} : reply' = [kind |-> kind, call |-> m.body]
      BY <1>8, <2>3 DEF Execute, Answer
    <3>2. connected /\ m.body = call
      BY <1>0, <2>1, <2>3 DEF OpenIsLast
    <3> QED BY <1>0, <2>1, <2>2, <3>1, <3>2 DEF ReplyForCall, call
  <2>4. CASE ~m.open
    <3>1. reply' = reply
      BY <1>8, <2>4 DEF Execute, Answer
    <3>2. reply.kind \in {"ok", "empty"} /\ reply # NoReply => executions[call] = 1 /\ call # m.body
      BY <1>0, <2>2 DEF ReplyForCall
    <3> QED BY <1>0, <2>1, <3>1, <3>2 DEF ReplyForCall, call
  <2> QED BY <2>3, <2>4
<1>9. ASSUME NEW d \in Daemons, NEW m \in wire, FailCommand(d, m) PROVE ReplyForCall'
  <2>1. \/ reply' = reply
        \/ reply' = [kind |-> "failed", call |-> m.body] /\ m.open /\ m.body # Nothing
    BY <1>9 DEF FailCommand, Answer
  <2> QED BY <1>0, <1>9, <2>1 DEF FailCommand, Ends, ReplyForCall, OpenIsLast, call
<1>10. ASSUME NEW d \in Daemons, Crash(d) PROVE ReplyForCall'
  BY <1>0, <1>10 DEF ReplyForCall, Crash, Ends, call
<1>11. ASSUME NEW d \in Daemons, Restart(d) PROVE ReplyForCall'
  BY <1>0, <1>11 DEF ReplyForCall, Restart, call
<1>12. ASSUME UNCHANGED vars PROVE ReplyForCall'
  BY <1>0, <1>12 DEF ReplyForCall, vars, call
<1> QED
  BY <1>1, <1>2, <1>3, <1>4, <1>5, <1>6, <1>7, <1>8, <1>9, <1>10, <1>11, <1>12,
     PollCases DEF Next

\* Each attempt is one send more and one retry less.
LEMMA CountedStep ==
  ASSUME Inv, [Next]_vars
  PROVE  Counted'
<1> USE DEF clientVars
<1>0. /\ request_retries \in Int /\ retries_left \in Int
      /\ sends \in Nat /\ sends <= MaxSends /\ MaxSends \in Nat
      /\ Counted /\ call \in Nat
  BY TypeFacts, CallFacts, Bounds DEF Inv
<1>1. ASSUME NEW mode \in Modes, NEW retries \in Retries, Query(mode, retries)
     PROVE  Counted'
  <2>1. /\ pc' = "poll" /\ request_retries' = retries /\ sends' = 1
        /\ retries_left' = IF retries < 0 THEN -1 ELSE retries
        /\ retries \in Int /\ retries < MaxSends
    BY <1>1, Bounds DEF Query
  <2>2. call' = call + 1
    BY <1>1, NewCall DEF Query, Inv
  <2> QED BY <1>0, <2>1, <2>2 DEF Counted
<1>2. ASSUME GiveUp PROVE Counted'
  BY <1>0, <1>2 DEF Counted, GiveUp, Return, call
<1>3. ASSUME NEW open \in BOOLEAN, Again(open) PROVE Counted'
  <2>1. /\ pc = "poll" /\ call' = call /\ request_retries' = request_retries
        /\ retries_left' = Decrement(retries_left) /\ retries_left' # 0
        /\ sends' = IF sends < MaxSends THEN sends + 1 ELSE sends
    BY <1>3 DEF Again, Retry, Exhausted, call
  <2>2. retries_left' = IF retries_left = -2 THEN -1 ELSE retries_left - 1
    BY <2>1 DEF Decrement
  <2> QED BY <1>0, <2>1, <2>2 DEF Counted
<1>4. ASSUME Answered PROVE Counted'
  BY <1>0, <1>4 DEF Counted, Answered, Return, call
<1>5. ASSUME StdinReadable PROVE Counted'
  BY <1>0, <1>5 DEF Counted, StdinReadable, call
<1>6. ASSUME NEW m \in wire, Drop(m) PROVE Counted'
  BY <1>0, <1>6 DEF Counted, Drop, call
<1>7. ASSUME NEW d \in Daemons, NEW m \in wire, RefuseMessage(d, m) PROVE Counted'
  BY <1>0, <1>7 DEF Counted, RefuseMessage, call
<1>8. ASSUME NEW d \in Daemons, NEW m \in wire, Execute(d, m) PROVE Counted'
  BY <1>0, <1>8 DEF Counted, Execute, call
<1>9. ASSUME NEW d \in Daemons, NEW m \in wire, FailCommand(d, m) PROVE Counted'
  BY <1>0, <1>9 DEF Counted, FailCommand, Ends, call
<1>10. ASSUME NEW d \in Daemons, Crash(d) PROVE Counted'
  BY <1>0, <1>10 DEF Counted, Crash, Ends, call
<1>11. ASSUME NEW d \in Daemons, Restart(d) PROVE Counted'
  BY <1>0, <1>11 DEF Counted, Restart, call
<1>12. ASSUME UNCHANGED vars PROVE Counted'
  BY <1>0, <1>12 DEF Counted, vars, call
<1> QED
  BY <1>1, <1>2, <1>3, <1>4, <1>5, <1>6, <1>7, <1>8, <1>9, <1>10, <1>11, <1>12,
     PollCases DEF Next

\* A call returns without failing only with the reply "ok".
LEMMA EndedOrFailedStep ==
  ASSUME Inv, [Next]_vars
  PROVE  EndedOrFailed'
<1> USE DEF clientVars, daemonVars
<1>0. /\ EndedOrFailed /\ OneRequest /\ ReplyForCall
      /\ \A m \in wire : m.body \in Calls \cup {Nothing}
      /\ reply # NoReply => reply.kind \in ReplyKinds
      /\ executions \in [Calls -> Nat]
      /\ call \in Nat /\ Calls \subseteq Nat \ {Nothing} /\ 1..call \subseteq Calls
  BY TypeFacts, CallFacts, Bounds DEF Inv, Typed, Calls, Nothing
<1>1. ASSUME NEW mode \in Modes, NEW retries \in Retries, Query(mode, retries)
     PROVE  EndedOrFailed'
  <2>1. call' = call + 1 /\ pc # "poll" /\ pc' = "poll" /\ UNCHANGED <<failed, executions>>
    BY <1>1, NewCall DEF Query, Inv
  <2> QED BY <1>0, <2>1 DEF EndedOrFailed
<1>2. ASSUME GiveUp PROVE EndedOrFailed'
  BY <1>0, <1>2 DEF EndedOrFailed, GiveUp, Return, call
<1>3. ASSUME NEW open \in BOOLEAN, Again(open) PROVE EndedOrFailed'
  BY <1>0, <1>3 DEF EndedOrFailed, Again, Retry, call
<1>4. ASSUME Answered PROVE EndedOrFailed'
  <2>1. failed' = IF reply.kind = "ok" THEN failed ELSE failed \cup {call}
    BY <1>4 DEF Answered, Return
  <2>2. call \in failed' \/ executions[call] = 1
    BY <1>0, <1>4, <2>1 DEF Answered, ReplyForCall
  <2> QED BY <1>0, <1>4, <2>1, <2>2 DEF Answered, EndedOrFailed, call
<1>5. ASSUME StdinReadable PROVE EndedOrFailed'
  BY <1>0, <1>5 DEF EndedOrFailed, StdinReadable, call
<1>6. ASSUME NEW m \in wire, Drop(m) PROVE EndedOrFailed'
  BY <1>0, <1>6 DEF EndedOrFailed, Drop, call
<1>7. ASSUME NEW d \in Daemons, NEW m \in wire, RefuseMessage(d, m) PROVE EndedOrFailed'
  BY <1>0, <1>7 DEF EndedOrFailed, RefuseMessage, call
<1>8. ASSUME NEW d \in Daemons, NEW m \in wire, Execute(d, m) PROVE EndedOrFailed'
  <2>1. /\ m.body \in Calls /\ modes' = modes /\ failed' = failed /\ pc' = pc
        /\ executions' = [executions EXCEPT ![m.body] = @ + 1]
    BY <1>0, <1>8 DEF Execute
  <2>2. executions[m.body] = 0
    BY <1>0, <2>1 DEF OneRequest
  <2>3. \A c \in Calls : executions[c] = 1 => executions'[c] = 1
    BY <1>0, <2>1, <2>2
  <2> QED BY <1>0, <2>1, <2>3 DEF EndedOrFailed, call
<1>9. ASSUME NEW d \in Daemons, NEW m \in wire, FailCommand(d, m) PROVE EndedOrFailed'
  BY <1>0, <1>9 DEF EndedOrFailed, FailCommand, Ends, call
<1>10. ASSUME NEW d \in Daemons, Crash(d) PROVE EndedOrFailed'
  BY <1>0, <1>10 DEF EndedOrFailed, Crash, Ends, call
<1>11. ASSUME NEW d \in Daemons, Restart(d) PROVE EndedOrFailed'
  BY <1>0, <1>11 DEF EndedOrFailed, Restart, call
<1>12. ASSUME UNCHANGED vars PROVE EndedOrFailed'
  BY <1>0, <1>12 DEF EndedOrFailed, vars, call
<1> QED
  BY <1>1, <1>2, <1>3, <1>4, <1>5, <1>6, <1>7, <1>8, <1>9, <1>10, <1>11, <1>12,
     PollCases DEF Next

\* What a daemon executes while no earlier call has failed is the call in progress:
\* it is greater than all that the daemon holds.
LEMMA OrderedStep ==
  ASSUME Inv, [Next]_vars
  PROVE  Ordered'
<1> USE DEF clientVars, daemonVars
<1>0. /\ Ordered /\ OneRequest /\ EndedOrFailed
      /\ content \in [Daemons -> Seq(Calls)] /\ executions \in [Calls -> Nat]
      /\ failed \subseteq 1..call /\ call \in Nat
      /\ 1..call \subseteq Calls /\ \A c \in Calls : c \in Nat /\ c # Nothing
      /\ \A m \in wire : m.body \in Calls \cup {Nothing}
  <2>1. /\ Typed /\ Ordered /\ OneRequest /\ EndedOrFailed
    BY DEF Inv
  <2>2. call \in Nat /\ call <= MaxCalls
    BY <2>1, CallFacts
  <2>3. 1..call \subseteq Calls /\ \A c \in Calls : c \in Nat /\ c # Nothing
    BY <2>2, Bounds DEF Calls, Nothing
  <2>4. \A m \in wire : m.body \in Calls \cup {Nothing}
    BY <2>1, TypeFacts
  <2> QED BY <2>1, <2>2, <2>3, <2>4 DEF Typed
<1>1. ASSUME NEW mode \in Modes, NEW retries \in Retries, Query(mode, retries)
     PROVE  Ordered'
  <2>1. /\ call' = call + 1 /\ call + 1 \in Calls
        /\ \A c \in 1..call : modes'[c] = modes[c]
    BY <1>1, NewCall DEF Query, Inv
  <2>2. UNCHANGED <<content, executions, failed, restarted>>
    BY <1>1 DEF Query
  <2>3. failed' \subseteq {call'} => failed \subseteq {call}
    BY <1>0, <2>1, <2>2
  <2>4. executions[call + 1] = 0
    BY <1>0, <2>1 DEF OneRequest
  <2>5. \A c \in 1..call' : executions[c] = 1 => c \in 1..call
    BY <1>0, <2>1, <2>4
  <2>6. \A d \in Daemons : \A c \in 1..call : MeantFor(d, c)' = MeantFor(d, c)
    BY <2>1 DEF MeantFor
  <2>7. \A d \in Daemons : \A c \in 1..call : KeptOrLost(d, c) => KeptOrLost(d, c)'
    BY <2>2 DEF KeptOrLost
  <2> QED BY <1>0, <2>2, <2>3, <2>5, <2>6, <2>7 DEF Ordered
<1>2. ASSUME GiveUp PROVE Ordered'
  BY <1>0, <1>2, OrderedKept DEF GiveUp, Return
<1>3. ASSUME NEW open \in BOOLEAN, Again(open) PROVE Ordered'
  BY <1>0, <1>3, OrderedKept DEF Again, Retry
<1>4. ASSUME Answered PROVE Ordered'
  BY <1>0, <1>4, OrderedKept DEF Answered, Return
<1>5. ASSUME StdinReadable PROVE Ordered'
  BY <1>0, <1>5, OrderedKept DEF StdinReadable
<1>6. ASSUME NEW m \in wire, Drop(m) PROVE Ordered'
  BY <1>0, <1>6, OrderedKept DEF Drop
<1>7. ASSUME NEW d \in Daemons, NEW m \in wire, RefuseMessage(d, m) PROVE Ordered'
  BY <1>0, <1>7, OrderedKept DEF RefuseMessage
<1>8. ASSUME NEW d \in Daemons, NEW m \in wire, Execute(d, m) PROVE Ordered'
  <2> DEFINE b == m.body
  <2>1. /\ Listens(d, m.to) /\ b \in Calls /\ b # Nothing
        /\ content' = [content EXCEPT ![d] = Append(content[d], b)]
        /\ executions' = [executions EXCEPT ![b] = @ + 1]
        /\ UNCHANGED <<modes, failed, restarted>>
    BY <1>0, <1>8 DEF Execute, Populated
  <2>2. executions[b] = 0 /\ b <= call /\ m.to = Address(ClientEnv, Target(modes[b]))
    BY <1>0, <2>1 DEF OneRequest
  <2> HIDE DEF b
  <2>3. executions'[b] = 1 /\ \A c \in Calls \ {b} : executions'[c] = executions[c]
    BY <1>0, <2>1, <2>2
  <2>4. /\ content'[d] = Append(content[d], b)
        /\ \A e \in Daemons \ {d} : content'[e] = content[e]
    BY <1>0, <2>1
  <2>5. Held(content'[d]) = Held(content[d]) \cup {b}
    BY <1>0, <2>1, <2>4, HeldAppended
  <2>6. \A e \in Daemons : Held(content[e]) \subseteq Calls \ {b}
    <3>1. \A e \in Daemons : Held(content[e]) \subseteq Calls
      BY <1>0 DEF Held
    <3> QED BY <1>0, <2>2, <3>1 DEF Ordered
  <2>7. \A e \in Daemons : \A c \in Held(content'[e]) : executions'[c] = 1
    <3>1. \A e \in Daemons : \A c \in Held(content[e]) : executions[c] = 1
      BY <1>0 DEF Ordered
    <3>2. \A e \in Daemons : \A c \in Held(content[e]) : executions'[c] = 1
      BY <2>3, <2>6, <3>1
    <3>3. \A c \in Held(content'[d]) : executions'[c] = 1
      BY <2>3, <2>5, <3>2
    <3> QED BY <2>4, <3>2, <3>3
  <2>8. call' = call
    BY <2>1 DEF call
  <2>9. ASSUME failed \subseteq {call}
        PROVE  \A e \in Daemons :
                  /\ Ascending(content'[e])
                  /\ \A c \in 1..call : 
                     MeantFor(e, c)' /\ executions'[c] = 1 => KeptOrLost(e, c)'
    <3>1. b = call
      <4>1. b \in 1..call
        BY <1>0, <2>1, <2>2 DEF Nothing
      <4> QED BY <1>0, <2>2, <2>9, <4>1 DEF EndedOrFailed
    <3>2. \A x \in Held(content[d]) : x < b
      <4>1. \A x \in Held(content[d]) : x \in Calls /\ x # b /\ executions[x] = 1
        BY <1>0, <2>6 DEF Ordered
      <4>2. \A x \in Held(content[d]) : ~(x > call)
        BY <1>0, <4>1 DEF OneRequest
      <4> QED BY <1>0, <3>1, <4>1, <4>2
    <3>3. \A e \in Daemons : Ascending(content'[e])
      <4>1. content[d] \in Seq(Calls) /\ Calls \subseteq Nat
        BY <1>0, <2>1
      <4>2. Ascending(content'[d])
        BY <1>0, <2>4, <2>1, <2>9, <3>2, <4>1, AscendingAppended DEF Ordered
      <4> QED BY <1>0, <2>4, <2>9, <4>2 DEF Ordered
    <3>4. ASSUME NEW e \in Daemons, NEW c \in 1..call, MeantFor(e, c)', executions'[c] = 1
          PROVE  KeptOrLost(e, c)'
      <4>1. MeantFor(e, c)
        BY <2>1, <3>4 DEF MeantFor
      <4>2. CASE c = b
        <5>1. e = d
          BY <2>1, <2>2, <4>1, <4>2 DEF MeantFor, Listens, Address
        <5> QED BY <2>5, <4>2, <5>1 DEF KeptOrLost
      <4>3. CASE c # b
        <5>1. executions[c] = 1 /\ c < b
          BY <1>0, <2>3, <3>1, <3>4, <4>3
        <5>2. KeptOrLost(e, c)
          BY <1>0, <2>9, <4>1, <5>1 DEF Ordered
        <5> QED BY <2>1, <2>4, <2>5, <5>1, <5>2 DEF KeptOrLost
      <4> QED BY <4>2, <4>3
    <3> QED BY <3>3, <3>4
  <2> QED BY <2>1, <2>7, <2>8, <2>9 DEF Ordered
<1>9. ASSUME NEW d \in Daemons, NEW m \in wire, FailCommand(d, m) PROVE Ordered'
  BY <1>0, <1>9, OrderedEnds DEF FailCommand
<1>10. ASSUME NEW d \in Daemons, Crash(d) PROVE Ordered'
  BY <1>0, <1>10, OrderedEnds DEF Crash
<1>11. ASSUME NEW d \in Daemons, Restart(d) PROVE Ordered'
  BY <1>0, <1>11, OrderedKept DEF Restart
<1>12. ASSUME UNCHANGED vars PROVE Ordered'
  BY <1>0, <1>12, OrderedKept DEF vars
<1> QED
  BY <1>1, <1>2, <1>3, <1>4, <1>5, <1>6, <1>7, <1>8, <1>9, <1>10, <1>11, <1>12,
     PollCases DEF Next

\* query returns the reply that ReplyForCall speaks of.
LEMMA ReplyIsOwnStep ==
  ASSUME Inv, [Next]_vars
  PROVE  ReplyIsOwn'
<1> USE DEF clientVars, daemonVars
<1>0. /\ ReplyIsOwn /\ OneRequest /\ ReplyForCall
      /\ \A m \in wire : m.body \in Calls \cup {Nothing}
      /\ reply # NoReply => reply.kind \in ReplyKinds
      /\ executions \in [Calls -> Nat]
      /\ call \in Nat
  BY TypeFacts, CallFacts DEF Inv, Typed
<1>1. ASSUME NEW mode \in Modes, NEW retries \in Retries, Query(mode, retries)
     PROVE  ReplyIsOwn'
  BY <1>0, <1>1 DEF ReplyIsOwn, Query, call
<1>2. ASSUME GiveUp PROVE ReplyIsOwn'
  BY <1>0, <1>2 DEF ReplyIsOwn, GiveUp, Return, call
<1>3. ASSUME NEW open \in BOOLEAN, Again(open) PROVE ReplyIsOwn'
  BY <1>0, <1>3 DEF ReplyIsOwn, Again, Retry, call
<1>4. ASSUME Answered PROVE ReplyIsOwn'
  <2>1. /\ reply # NoReply /\ executions' = executions /\ modes' = modes
        /\ result' = [kind |-> reply.kind, call |-> reply.call]
    BY <1>4 DEF Answered, Return
  <2> QED BY <1>0, <2>1 DEF ReplyForCall, ReplyIsOwn, call
<1>5. ASSUME StdinReadable PROVE ReplyIsOwn'
  BY <1>0, <1>5 DEF ReplyIsOwn, StdinReadable, call
<1>6. ASSUME NEW m \in wire, Drop(m) PROVE ReplyIsOwn'
  BY <1>0, <1>6 DEF ReplyIsOwn, Drop, call
<1>7. ASSUME NEW d \in Daemons, NEW m \in wire, RefuseMessage(d, m) PROVE ReplyIsOwn'
  BY <1>0, <1>7 DEF ReplyIsOwn, RefuseMessage, call
<1>8. ASSUME NEW d \in Daemons, NEW m \in wire, Execute(d, m) PROVE ReplyIsOwn'
  <2>1. /\ m.body \in Calls /\ m.body # Nothing
        /\ UNCHANGED <<modes, result, pc>>
        /\ executions' = [executions EXCEPT ![m.body] = @ + 1]
    BY <1>0, <1>8 DEF Execute
  <2>2. executions[m.body] = 0
    BY <1>0, <2>1 DEF OneRequest
  <2>3. executions[call] = 1 => executions'[call] = 1
    BY <1>0, <2>1, <2>2
  <2> QED BY <1>0, <2>1, <2>3 DEF ReplyIsOwn, call
<1>9. ASSUME NEW d \in Daemons, NEW m \in wire, FailCommand(d, m) PROVE ReplyIsOwn'
  BY <1>0, <1>9 DEF ReplyIsOwn, FailCommand, Ends, call
<1>10. ASSUME NEW d \in Daemons, Crash(d) PROVE ReplyIsOwn'
  BY <1>0, <1>10 DEF ReplyIsOwn, Crash, Ends, call
<1>11. ASSUME NEW d \in Daemons, Restart(d) PROVE ReplyIsOwn'
  BY <1>0, <1>11 DEF ReplyIsOwn, Restart, call
<1>12. ASSUME UNCHANGED vars PROVE ReplyIsOwn'
  BY <1>0, <1>12 DEF ReplyIsOwn, vars, call
<1> QED
  BY <1>1, <1>2, <1>3, <1>4, <1>5, <1>6, <1>7, <1>8, <1>9, <1>10, <1>11, <1>12,
     PollCases DEF Next

\* It gives up when one retry is left, having sent request_retries messages.
LEMMA SendsCountedStep ==
  ASSUME Inv, [Next]_vars
  PROVE  SendsCounted'
<1> USE DEF clientVars
<1>0. /\ request_retries \in Int /\ retries_left \in Int /\ sends \in Nat
      /\ Counted /\ SendsCounted
      /\ reply # NoReply => reply.kind \in ReplyKinds
  BY TypeFacts DEF Inv
<1>1. ASSUME NEW mode \in Modes, NEW retries \in Retries, Query(mode, retries)
     PROVE  SendsCounted'
  <2>1. request_retries' = retries /\ sends' = 1 /\ pc' = "poll" /\ retries \in Int
    BY <1>1, Bounds DEF Query
  <2> QED BY <2>1 DEF SendsCounted
<1>2. ASSUME GiveUp PROVE SendsCounted'
  <2>1. pc = "poll" /\ Decrement(retries_left) = 0
    BY <1>2 DEF GiveUp, Exhausted
  <2>2. retries_left = 1
    BY <1>0, <2>1 DEF Decrement
  <2>3. request_retries > 0 /\ sends = request_retries
    BY <1>0, <2>1, <2>2 DEF Counted
  <2> QED BY <1>0, <1>2, <2>3 DEF SendsCounted, GiveUp, Return
<1>3. ASSUME NEW open \in BOOLEAN, Again(open) PROVE SendsCounted'
  <2>1. (retries_left - 1 = retries_left' /\ retries_left' # 0) \/ retries_left = -2
    BY <1>3 DEF Again, Decrement, Exhausted
  <2>2. request_retries > 0 => sends + 1 <= request_retries
    BY <1>0, <1>3, <2>1 DEF Again, Counted
  <2>3. sends' \in {sends, sends + 1}
    BY <1>3 DEF Again, Retry
  <2> QED BY <1>0, <1>3, <2>2, <2>3 DEF SendsCounted, Again, Retry
<1>4. ASSUME Answered PROVE SendsCounted'
  BY <1>0, <1>4 DEF SendsCounted, Answered, Return, ReplyKinds
<1>5. ASSUME StdinReadable PROVE SendsCounted'
  BY <1>0, <1>5 DEF SendsCounted, StdinReadable
<1>6. ASSUME NEW m \in wire, Drop(m) PROVE SendsCounted'
  BY <1>0, <1>6 DEF SendsCounted, Drop
<1>7. ASSUME NEW d \in Daemons, NEW m \in wire, RefuseMessage(d, m) PROVE SendsCounted'
  BY <1>0, <1>7 DEF SendsCounted, RefuseMessage
<1>8. ASSUME NEW d \in Daemons, NEW m \in wire, Execute(d, m) PROVE SendsCounted'
  BY <1>0, <1>8 DEF SendsCounted, Execute
<1>9. ASSUME NEW d \in Daemons, NEW m \in wire, FailCommand(d, m) PROVE SendsCounted'
  BY <1>0, <1>9 DEF SendsCounted, FailCommand, Ends
<1>10. ASSUME NEW d \in Daemons, Crash(d) PROVE SendsCounted'
  BY <1>0, <1>10 DEF SendsCounted, Crash, Ends
<1>11. ASSUME NEW d \in Daemons, Restart(d) PROVE SendsCounted'
  BY <1>0, <1>11 DEF SendsCounted, Restart
<1>12. ASSUME UNCHANGED vars PROVE SendsCounted'
  BY <1>0, <1>12 DEF SendsCounted, vars
<1> QED
  BY <1>1, <1>2, <1>3, <1>4, <1>5, <1>6, <1>7, <1>8, <1>9, <1>10, <1>11, <1>12,
     PollCases DEF Next

-----------------------------------------------------------------------------
(* The invariant holds, and what follows from it.                          *)

LEMMA InitInv ==
  ASSUME Init
  PROVE  Inv
<1> USE DEF Init
<1>1. /\ modes = <<>> /\ Len(modes) = 0 /\ modes \in Seq(Modes)
      /\ \A d \in Daemons : content[d] = <<>> /\ <<>> \in Seq(Calls)
  OBVIOUS
<1>2. call = 0
  BY <1>1 DEF call
<1>3. Typed
  <2>1. connected \in BOOLEAN
    BY Zenon
  <2>2. content \in [Daemons -> Seq(Calls)] /\ alive \in [Daemons -> BOOLEAN]
    BY <1>1
  <2>3. executions \in [Calls -> Nat]
    OBVIOUS
  <2>4. result \in [kind : Kinds, call : Calls \cup {Nothing}]
    BY DEF NoReply, Kinds
  <2>5. call <= MaxCalls /\ sends \in 0..MaxSends
    BY <1>2, Bounds
  <2> QED BY <1>1, <1>2, <2>1, <2>2, <2>3, <2>4, <2>5 DEF Typed
<1>4. OpenIsLast /\ ReplyForCall /\ Counted
  BY DEF OpenIsLast, ReplyForCall, Counted
<1>5. OneRequest
  BY DEF OneRequest
<1>6. EndedOrFailed
  BY <1>2 DEF EndedOrFailed
<1>7. Ordered
  <2>1. Held(<<>>) = {} /\ Ascending(<<>>)
    BY DEF Held, Ascending
  <2> QED BY <1>1, <1>2, <2>1 DEF Ordered
<1>8. ReplyIsOwn /\ SendsCounted
  BY DEF ReplyIsOwn, SendsCounted, NoReply
<1> QED BY <1>3, <1>4, <1>5, <1>6, <1>7, <1>8 DEF Inv

LEMMA Invariant == Spec => []Inv
<1>1. Init => Inv
  BY InitInv
<1>2. Inv /\ [Next]_vars => Inv'
  BY TypedStep, OpenIsLastStep, OneRequestStep, ReplyForCallStep, CountedStep,
     EndedOrFailedStep, OrderedStep, ReplyIsOwnStep, SendsCountedStep DEF Inv
<1> QED BY <1>1, <1>2, PTL DEF Spec

\* Types are kept, and at most one message is answered: the one that the caller
\* has sent from the socket that it polls (client.cpp, query and ProcessRequest).
THEOREM ClientTypeCorrect == Spec => []TypeOK
<1>1. Inv => TypeOK
  <2> SUFFICES ASSUME Inv PROVE TypeOK
    OBVIOUS
  <2>1. Typed /\ OpenIsLast
    BY DEF Inv
  <2>2. reply \in [kind : Kinds, call : Calls \cup {Nothing}]
    <3>1. NoReply \in [kind : Kinds, call : Calls \cup {Nothing}]
      BY DEF NoReply, Kinds
    <3>2. Replies \subseteq [kind : Kinds, call : Calls \cup {Nothing}]
      BY DEF Replies, ReplyKinds, Kinds
    <3> QED BY <2>1, <3>1, <3>2 DEF Typed
  <2>3. message \in Calls \cup {Nothing} /\ \A d \in Daemons : content[d] \in Seq(Calls)
    BY <2>1 DEF Typed
  <2>4. LET open == {m \in wire : m.open} IN
        /\ \A m, n \in open : m = n
        /\ open # {} => connected /\ pc = "poll"
    BY <2>1 DEF OpenIsLast
  <2> QED BY <2>1, <2>2, <2>3, <2>4 DEF Typed, TypeOK
<1> QED BY <1>1, Invariant, PTL

\* However a call is retried, no command is executed twice: a message_t is empty
\* once it has been sent, so only the first attempt carries the command.
THEOREM CommandsAreExecutedOnce == Spec => []AtMostOnce
<1>1. Inv => AtMostOnce
  BY DEF Inv, OneRequest, AtMostOnce
<1> QED BY <1>1, Invariant, PTL

\* The reply that query returns is to its own command, which was executed if the
\* reply says so, whatever late replies and ends of daemons there were.
THEOREM RepliesAreOwn == Spec => []ReplyIsOwn
<1>1. Inv => ReplyIsOwn
  BY DEF Inv
<1> QED BY <1>1, Invariant, PTL

\* A positive request_retries bounds what a call sends besides its first message,
\* however time-outs and "resend" replies alternate.
THEOREM SendsWithinBudget == Spec => []SendsAreBounded
<1>1. Inv => SendsAreBounded
  <2> SUFFICES ASSUME Inv PROVE SendsAreBounded
    OBVIOUS
  <2>1. request_retries \in Int /\ sends \in Nat
    BY TypeFacts DEF Inv
  <2>2. request_retries > 0 => sends <= request_retries
    BY DEF Inv, SendsCounted
  <2> QED BY <2>1, <2>2 DEF SendsAreBounded
<1> QED BY <1>1, Invariant, PTL

\* The batches of a caller that stops at the first failure: a daemon holds them in
\* order, and lacks those that it lost when it ended, all before what it holds.
THEOREM PopulationsAreInOrder == Spec => []BatchesInOrder
<1>1. Inv => BatchesInOrder
  <2> SUFFICES ASSUME Inv, failed \subseteq {call}, NEW d \in Daemons
               PROVE  /\ Ascending(content[d])
                      /\ \A c \in 1..call : MeantFor(d, c) => c = call \/ KeptOrLost(d, c)
    BY DEF BatchesInOrder, Ascending, MeantFor, KeptOrLost, Held
  <2>1. Ordered /\ EndedOrFailed
    BY DEF Inv
  <2>2. \A c \in 1..call : c = call \/ executions[c] = 1
    BY <2>1 DEF EndedOrFailed
  <2> QED BY <2>1, <2>2 DEF Ordered
<1> QED BY <1>1, Invariant, PTL
=============================================================================
