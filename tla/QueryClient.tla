---------------------------- MODULE QueryClient ----------------------------
(* query() of the Python module (client.cpp) against the two daemons: the   *)
(* poll loop with its time-outs and retries, ZeroMQ's REQ sockets, and what *)
(* the daemons execute.  One caller makes one call after the other, each    *)
(* with a command that changes the hierarchy, as when it populates one in   *)
(* batches.  A call is named by its number.                                 *)
EXTENDS Integers, Sequences

CONSTANTS
    Retries,                \* the values of request_retries that it passes
    ClientEnv, DaemonEnv,   \* ZEROMQ_USE_TCP: "unset", "1" or "0"
    Modes,                  \* the values of app_mode that the caller passes
    MaxCalls,               \* bound: calls of query
    MaxCrashes,             \* bound: ends of a daemon
    MaxSends                \* bound: the sends of a call are not counted further

ASSUME ClientAssumption ==
    /\ Retries \subseteq Int
    /\ {ClientEnv, DaemonEnv} \subseteq {"unset", "1", "0"}
    /\ {MaxCalls, MaxCrashes} \subseteq Nat /\ MaxSends \in Nat \ {0}
    /\ \A n \in Retries : n + 1 < MaxSends     \* what may be sent before giving up is

VARIABLES
    modes,          \* the app_mode of every call so far
    request_retries,    \* the parameter of the last call
    pc,             \* of the caller: "poll", "returned", "raised" (an exception)
    retries_left, message,
    connected,      \* whether the caller's socket is open
    reply,          \* the reply that is on its way to that socket
    result,         \* the last reply_list
    sends,          \* how often the call in progress has sent a message
    wire,           \* messages that no daemon has received
    content,        \* daemon -> the calls it has executed since it started
    alive, crashes,
    executions,     \* history: call -> how often it was executed
    failed,         \* history: calls that ended without the command's own reply
    restarted       \* history: daemons that lost their content

clientVars == <<modes, request_retries, pc, retries_left, message, connected, result,
                sends, failed>>
daemonVars == <<content, alive, crashes, executions, restarted>>
vars == <<clientVars, reply, wire, daemonVars>>

Daemons == {"server", "statemanager"}
Calls == 1..MaxCalls
Nothing == 0            \* an empty message
NoReply == [kind |-> "none", call |-> Nothing]
Kinds == {"none", "ok", "empty", "failed", "resend", "not responding"}
call == Len(modes)

-----------------------------------------------------------------------------
(* config.h: where the daemons listen and the client connects.             *)

\* getenv(...) && strcmp(..., "1"): the value "1" compares equal.
IsUseTcp(env) == env # "unset" /\ env # "1"
Address(env, d) == [tcp |-> IsUseTcp(env), of |-> d]
\* get_socket: any other app_mode is taken for the statemanager.
Target(mode) == IF mode = "server" THEN "server" ELSE "statemanager"
Listens(d, address) == Address(DaemonEnv, d) = address

-----------------------------------------------------------------------------
(* ZeroMQ, as far as a REQ socket with linger 0 can tell (external).       *)

\* Mutant: the message keeps its content when it is sent.
Emptied_Kept(body) == body

\* What is left of a message_t once it has been sent.
Emptied(body) == Nothing

Message(body, mode, open) ==
    [body |-> body, to |-> Address(ClientEnv, Target(mode)), open |-> open]
\* Mutant: the old socket is not closed.
Closed_StillOpen(w) == w

\* The socket is closed: nobody reads an answer to what it sent, which may have
\* reached the daemon all the same.
Closed(w) == {[m EXCEPT !.open = FALSE] : m \in w}

\* Mutant: a reply finds its way to whatever socket the client has.
Answer_AnySocket(m, kind) == [kind |-> kind, call |-> m.body]

Answer(m, kind) == IF m.open THEN [kind |-> kind, call |-> m.body] ELSE reply

\* With linger 0, closing drops what was not sent yet.
Drop(m) ==
    /\ m \in wire /\ ~m.open
    /\ wire' = wire \ {m}
    /\ UNCHANGED <<clientVars, reply, daemonVars>>

-----------------------------------------------------------------------------
(* The client.                                                             *)

\* --retries_left.  The tests for 0 cannot tell negative numbers apart: -1 and
\* -2 stand for the odd and the even ones.
Decrement(n) == IF n = -2 THEN -1 ELSE n - 1

\* Mutant: the counter is tested before it is decremented.
Exhausted_Late(n) == n < 0

Exhausted(n) == n = 0

Sent(body, mode, open) ==
    /\ wire' = Closed(wire) \cup {Message(body, mode, open)}
    /\ message' = Emptied(body)
    /\ connected' = open

Query(mode, retries) ==
    /\ pc # "poll" /\ call < MaxCalls
    /\ modes' = Append(modes, mode)
    /\ pc' = "poll"
    /\ request_retries' = retries
    /\ retries_left' = IF retries < 0 THEN -1 ELSE retries
    /\ Sent(call + 1, mode, TRUE)
    /\ sends' = 1
    /\ result' = NoReply
    /\ UNCHANGED <<reply, failed, daemonVars>>

Return(kind, of) ==
    /\ pc' = "returned"
    /\ connected' = FALSE
    /\ wire' = Closed(wire)
    /\ result' = [kind |-> kind, call |-> of]
    /\ failed' = IF kind = "ok" THEN failed ELSE failed \cup {call}
    /\ UNCHANGED <<message, sends>>

\* Another attempt, from a socket that stays open or not.
Retry(open) ==
    /\ Sent(message, modes[call], open)
    /\ sends' = IF sends < MaxSends THEN sends + 1 ELSE sends
    /\ UNCHANGED <<pc, result, failed>>

\* Mutant: poll waits for ever.
Timeout_Never == FALSE

\* poll times out.  If the socket is closed, the retry opens one again.
Timeout ==
    /\ pc = "poll"
    /\ retries_left' = Decrement(retries_left)
    /\ \/ Exhausted(retries_left') /\ Return("not responding", Nothing)
       \/ ~Exhausted(retries_left') /\ Retry(TRUE)
    /\ reply' = NoReply
    /\ UNCHANGED <<modes, request_retries, daemonVars>>

\* Mutant: a "resend" does not count as a failure.
ProcessRequest_NotCounted ==
    /\ pc = "poll" /\ connected /\ reply # NoReply
    /\ IF reply.kind = "resend" THEN Retry(FALSE) ELSE Return(reply.kind, reply.call)
    /\ reply' = NoReply
    /\ UNCHANGED <<modes, request_retries, retries_left, daemonVars>>

\* ProcessRequest closes the caller's socket.  To resend, it opens one that it
\* gives to nobody: on its return that socket is closed too.
ProcessRequest ==
    /\ pc = "poll" /\ connected /\ reply # NoReply
    /\ \/ /\ reply.kind = "resend"
          /\ retries_left' = Decrement(retries_left)
          /\ \/ Exhausted(retries_left') /\ Return("not responding", Nothing)
             \/ ~Exhausted(retries_left') /\ Retry(FALSE)
       \/ /\ reply.kind # "resend"
          /\ Return(reply.kind, reply.call)
          /\ UNCHANGED retries_left
    /\ reply' = NoReply
    /\ UNCHANGED <<modes, request_retries, daemonVars>>

\* A closed socket converts to a null pointer, which makes zmq::poll look at
\* file descriptor 0, the standard input.  If that can be read, ProcessRequest
\* reads from the closed socket, which throws.
StdinReadable ==
    /\ pc = "poll" /\ ~connected
    /\ pc' = "raised"
    /\ failed' = failed \cup {call}
    /\ UNCHANGED <<modes, request_retries, retries_left, message, connected, reply, result,
                   sends, wire, daemonVars>>

-----------------------------------------------------------------------------
(* The daemons, main.cpp: a request is received, handled and answered.     *)

\* An empty message is no archive: HandleRequest answers "resend".
RefuseMessage(d, m) ==
    /\ alive[d] /\ m \in wire /\ Listens(d, m.to) /\ m.body = Nothing
    /\ wire' = wire \ {m}
    /\ reply' = Answer(m, "resend")
    /\ UNCHANGED <<clientVars, daemonVars>>

\* Mutant: each population starts from an empty hierarchy.
Populated_FromEmpty(d, batch) == [content EXCEPT ![d] = <<batch>>]

\* populate_graph adds to what there is; it does not look at what is missing.
Populated(d, batch) == [content EXCEPT ![d] = Append(@, batch)]

\* Command::Process returns the command's answer, or an empty list if the command
\* threw in the middle of its batch; what it had added until then stays.
Execute(d, m) ==
    /\ alive[d] /\ m \in wire /\ Listens(d, m.to) /\ m.body # Nothing
    /\ wire' = wire \ {m}
    /\ content' = Populated(d, m.body)
    /\ executions' = [executions EXCEPT ![m.body] = @ + 1]
    /\ \E kind \in {"ok", "empty"} : reply' = Answer(m, kind)
    /\ UNCHANGED <<clientVars, alive, crashes, restarted>>

\* The process ends, and with it its hierarchy and any message it had received
\* or not yet got rid of.
Ends(d) ==
    /\ alive[d] /\ crashes < MaxCrashes
    /\ crashes' = crashes + 1
    /\ alive' = [alive EXCEPT ![d] = FALSE]
    /\ content' = [content EXCEPT ![d] = <<>>]
    /\ restarted' = restarted \cup {d}
    /\ UNCHANGED <<clientVars, executions>>

\* HandleReply answers "command failed" and lets the exception go.
FailCommand(d, m) ==
    /\ m \in wire /\ Listens(d, m.to) /\ m.body # Nothing
    /\ wire' = wire \ {m}
    /\ reply' \in {Answer(m, "failed"), reply}
    /\ Ends(d)

Crash(d) ==
    /\ \E lost \in SUBSET {m \in wire : Listens(d, m.to)} : wire' = wire \ lost
    /\ reply' \in {reply, NoReply}
    /\ Ends(d)

Restart(d) ==
    /\ ~alive[d]
    /\ alive' = [alive EXCEPT ![d] = TRUE]
    /\ UNCHANGED <<clientVars, reply, wire, content, crashes, executions, restarted>>

-----------------------------------------------------------------------------
Init ==
    /\ modes = <<>> /\ request_retries = 0 /\ pc = "returned"
    /\ retries_left = 0 /\ sends = 0
    /\ message = Nothing /\ connected = FALSE
    /\ reply = NoReply /\ result = NoReply
    /\ wire = {}
    /\ content = [d \in Daemons |-> <<>>]
    /\ alive = [d \in Daemons |-> TRUE]
    /\ crashes = 0
    /\ executions = [c \in Calls |-> 0]
    /\ failed = {} /\ restarted = {}

Poll == Timeout \/ ProcessRequest \/ StdinReadable

Next ==
    \/ \E mode \in Modes, retries \in Retries : Query(mode, retries)
    \/ Poll
    \/ \E m \in wire : Drop(m)
    \/ \E d \in Daemons : \/ \E m \in wire : RefuseMessage(d, m) \/ Execute(d, m) \/ FailCommand(d, m)
                          \/ Crash(d)
                          \/ Restart(d)

\* zmq::poll returns after request_timeout at the latest; nothing is assumed of
\* the daemons, the network or the caller.
Spec == Init /\ [][Next]_vars /\ WF_vars(Poll)

-----------------------------------------------------------------------------
\* Type invariant; at most one message is answered, the one that was sent from
\* the caller's open socket.
TypeOK ==
    /\ modes \in Seq(Modes) /\ call <= MaxCalls
    /\ pc \in {"poll", "returned", "raised"}
    /\ retries_left \in Int /\ sends \in 0..MaxSends
    /\ message \in Calls \cup {Nothing}
    /\ reply \in [kind : Kinds, call : Calls \cup {Nothing}]
    /\ result \in [kind : Kinds, call : Calls \cup {Nothing}]
    /\ \A d \in Daemons : content[d] \in Seq(Calls)
    /\ LET open == {m \in wire : m.open} IN
       /\ \A m, n \in open : m = n
       /\ open # {} => connected /\ pc = "poll"

\* However often a call times out and retries, and however late its messages
\* are received, no daemon life executes its command a second time.  (What keeps
\* it so is that a retry has nothing to send.)
AtMostOnce == \A c \in Calls : executions[c] <= 1

\* The reply that query returns answers this call: a late reply to an earlier
\* one goes to a socket that is closed, and "ok" and the empty list mean that the
\* command was executed, to its end or not.
ReplyIsOwn ==
    pc = "returned" /\ result.kind \in {"ok", "empty", "failed"} =>
        /\ result.call = call
        /\ result.kind \in {"ok", "empty"} => executions[call] = 1

\* request_retries, if positive, bounds what a call sends besides its first message:
\* the retries after a time-out, in query, and those after a "resend", in
\* ProcessRequest, come out of one budget, in whatever order they happen.
SendsAreBounded == request_retries > 0 => sends <= request_retries + 1

\* The description of query: request_retries specifies how many times to retry on
\* failure, so a call that reports that the daemon does not respond has sent its
\* message once and then request_retries times.
RetriesAsDocumented ==
    pc = "returned" /\ result.kind = "not responding" => sends = request_retries + 1

\* Batches of a caller that stops at the first failure.  A daemon holds them in
\* their order; what it lacks is the last one, or was lost when the daemon ended
\* and came before everything that it holds: a restart in the middle of a
\* population leaves the later batches only, and every one was answered "cache
\* populated".
BatchesInOrder ==
    failed \subseteq {call} =>
        \A d \in Daemons :
            LET held == {content[d][i] : i \in 1..Len(content[d])} IN
            /\ \A i, j \in 1..Len(content[d]) : i < j => content[d][i] < content[d][j]
            /\ \A c \in 1..call : Listens(d, Address(ClientEnv, Target(modes[c]))) =>
                  \/ c \in held \/ c = call
                  \/ d \in restarted /\ \A x \in held : c < x

\* A call with a positive request_retries ends, whatever the daemons do.  (With
\* zero the counter passes the test for 0 and the loop may go on for ever.)
QueryEnds == (pc = "poll" /\ request_retries > 0) ~> (pc # "poll")
=============================================================================
