-------------------------- MODULE HierarchyService --------------------------
(***************************************************************************)
(* The processes of the service and the messages between them: the two     *)
(* daemons (server and statemanager, main.cpp), the backup service         *)
(* (backup_service/main.cpp), redis, and ZeroMQ between them.              *)
(*                                                                         *)
(* What a daemon's hierarchy holds is abstracted to a number: 0 is the     *)
(* empty hierarchy and every command that edits one makes a content that   *)
(* nobody had before.  TagHierarchy models what the commands do to it.     *)
(*                                                                         *)
(* A daemon polls its REP and SUB sockets, handles a client's request if   *)
(* there is one, then a notification if there was one when it polled.  For *)
(* store and restore it sends a request to the backup service and blocks,  *)
(* without a timeout, until the reply.  The backup service handles one     *)
(* request at a time; when it has stored, it publishes a notification      *)
(* without content, then replies.  To publish and to reply is to hand a    *)
(* message to a socket: what the socket has not sent yet is lost if the    *)
(* process ends.  Redis, the sockets and the supervisor that restarts      *)
(* processes are outside this repository.                                  *)
(***************************************************************************)
EXTENDS Integers

CONSTANTS
    MaxEdits,      \* bound: commands that change a hierarchy
    MaxStores,     \* bound: store commands
    MaxCrashes,    \* bound: ends of a process
    SendHighWater, \* notifications that the PUB socket keeps for the server
    HighWater,     \* notifications that fit into the server's SUB queue
    ServerEdits    \* TRUE if clients also edit or store the server's hierarchy

ASSUME ServiceAssumption ==
    /\ {MaxEdits, MaxStores, MaxCrashes} \subseteq Nat
    /\ {SendHighWater, HighWater} \subseteq Nat \ {0}
    /\ ServerEdits \in BOOLEAN

VARIABLES
    mem,           \* daemon -> the content of its hierarchy
    up,            \* daemon -> whether its process runs
    pc,            \* daemon -> where its main loop is
    reply,         \* daemon -> the backup service's reply it has not read yet
    notified,      \* the server's poll has reported a notification
    sending,       \* notifications published but not in the server's SUB queue yet
    inbox,         \* notifications in the server's SUB queue
    subscribed,    \* the server's subscription has reached the PUB socket
    queue,         \* requests that the backup service has not received yet
    backup,        \* the backup service: [up, pc, cur, answer]
    redis,         \* what "hierarchy_cache" holds
    edits, stores, crashes,    \* counters for the bounds
    behind,        \* history: why the server may lack the newest content
    held           \* history: every content that redis has held

daemonVars == <<mem, up, pc, reply, notified>>
channelVars == <<sending, inbox, subscribed, queue>>
vars == <<daemonVars, channelVars, backup, redis, edits, stores, crashes, behind, held>>

Daemons == {"server", "statemanager"}
Empty == 0
NoKey == -1            \* redis has no such key; the reply is "ERROR"
NoReply == -2
Contents == Empty..MaxEdits
Request == [from : Daemons \cup {"nobody"}, kind : {"set", "get"}, content : Contents]
NoRequest == [from |-> "nobody", kind |-> "none", content |-> Empty]

IdleBackup == [up |-> TRUE, pc |-> "recv", cur |-> NoRequest, answer |-> NoReply]

Send(d, kind) == queue' = queue \cup {[from |-> d, kind |-> kind, content |-> mem[d]]}
MayEdit(d) == d = "server" => ServerEdits

-----------------------------------------------------------------------------
(* The main loop of a daemon.                                              *)

\* zmq::poll returns with a request, a notification, or both.  A notification
\* that is still on its way is not reported.
Poll(d, request, notification) ==
    /\ up[d] /\ pc[d] = "poll"
    /\ request \/ notification
    /\ notification => d = "server" /\ inbox > 0
    /\ pc' = [pc EXCEPT ![d] = IF request THEN "request" ELSE "subscribe"]
    /\ notified' = IF d = "server" THEN notification ELSE notified
    /\ UNCHANGED <<mem, up, reply, channelVars, backup, redis, edits, stores,
                   crashes, behind, held>>

\* After the request: the notification that poll reported, or the next poll.
AfterRequest(d) ==
    pc' = [pc EXCEPT ![d] = IF d = "server" /\ notified THEN "subscribe" ELSE "poll"]

\* A command that only reads, one that is rejected, or bytes that are no request
\* (answered with "resend").
ServeRead(d) ==
    /\ up[d] /\ pc[d] = "request"
    /\ AfterRequest(d)
    /\ UNCHANGED <<mem, up, reply, notified, channelVars, backup, redis, edits,
                   stores, crashes, behind, held>>

\* populate_graph, update or delete.
ServeEdit(d) ==
    /\ up[d] /\ pc[d] = "request" /\ MayEdit(d)
    /\ edits < MaxEdits
    /\ edits' = edits + 1
    /\ mem' = [mem EXCEPT ![d] = edits + 1]
    /\ behind' = (behind \/ d = "server")
    /\ AfterRequest(d)
    /\ UNCHANGED <<up, reply, notified, channelVars, backup, redis, stores,
                   crashes, held>>

ServeFlush(d) ==
    /\ up[d] /\ pc[d] = "request" /\ MayEdit(d)
    /\ mem' = [mem EXCEPT ![d] = Empty]
    /\ behind' = (behind \/ d = "server")
    /\ AfterRequest(d)
    /\ UNCHANGED <<up, reply, notified, channelVars, backup, redis, edits, stores,
                   crashes, held>>

\* Mutant: the reply of the backup service is not awaited.
StoreHierarchy_NoWait(d) ==
    /\ up[d] /\ pc[d] = "request" /\ MayEdit(d)
    /\ stores < MaxStores
    /\ stores' = stores + 1
    /\ Send(d, "set")
    /\ pc' = [pc EXCEPT ![d] = "store"]
    /\ reply' = [reply EXCEPT ![d] = mem[d]]
    /\ UNCHANGED <<mem, up, notified, sending, inbox, subscribed, backup, redis,
                   edits, crashes, behind, held>>

\* StoreHierarchy up to the blocking recv.
StoreHierarchy(d) ==
    /\ up[d] /\ pc[d] = "request" /\ MayEdit(d)
    /\ stores < MaxStores
    /\ stores' = stores + 1
    /\ Send(d, "set")
    /\ pc' = [pc EXCEPT ![d] = "store"]
    /\ UNCHANGED <<mem, up, reply, notified, sending, inbox, subscribed, backup, redis,
                   edits, crashes, behind, held>>

\* recv returns; whatever the reply says, the client is told "success".
StoreReturns(d) ==
    /\ up[d] /\ pc[d] = "store" /\ reply[d] # NoReply
    /\ reply' = [reply EXCEPT ![d] = NoReply]
    /\ AfterRequest(d)
    /\ UNCHANGED <<mem, up, notified, channelVars, backup, redis, edits, stores,
                   crashes, behind, held>>

\* RestoreHierarchy up to the blocking recv, for a client.
RestoreHierarchy(d) ==
    /\ up[d] /\ pc[d] = "request"
    /\ Send(d, "get")
    /\ pc' = [pc EXCEPT ![d] = "restore"]
    /\ UNCHANGED <<mem, up, reply, notified, sending, inbox, subscribed, backup, redis,
                   edits, stores, crashes, behind, held>>

\* Mutant: the notification is taken from the queue, but nothing is restored.
HandleSubscribe_Ignored ==
    /\ up["server"] /\ pc["server"] = "subscribe"
    /\ inbox' = inbox - 1
    /\ notified' = FALSE
    /\ pc' = [pc EXCEPT !["server"] = "poll"]
    /\ UNCHANGED <<mem, up, reply, sending, subscribed, queue, backup, redis, edits,
                   stores, crashes, behind, held>>

\* HandleSubscribe: one notification is read and a restore begins.
HandleSubscribe ==
    /\ up["server"] /\ pc["server"] = "subscribe"
    /\ inbox' = inbox - 1
    /\ notified' = FALSE
    /\ Send("server", "get")
    /\ pc' = [pc EXCEPT !["server"] = "restore"]
    /\ UNCHANGED <<mem, up, reply, sending, subscribed, backup, redis, edits, stores,
                   crashes, behind, held>>

\* Mutant: the server, now restored, also discards the notifications it has received.
RestoreReturns_Drains(d) ==
    /\ up[d] /\ pc[d] = "restore" /\ reply[d] # NoReply
    /\ mem' = [mem EXCEPT ![d] = IF reply[d] = NoKey THEN @ ELSE reply[d]]
    /\ reply' = [reply EXCEPT ![d] = NoReply]
    /\ behind' = (behind /\ ~(d = "server" /\ reply[d] # NoKey /\ reply[d] = redis))
    /\ AfterRequest(d)
    /\ inbox' = IF d = "server" /\ ~notified THEN 0 ELSE inbox
    /\ UNCHANGED <<up, notified, sending, subscribed, queue, backup, redis, edits,
                   stores, crashes, held>>

\* recv returns: "ERROR" leaves the hierarchy alone, anything else replaces it.
RestoreReturns(d) ==
    /\ up[d] /\ pc[d] = "restore" /\ reply[d] # NoReply
    /\ mem' = [mem EXCEPT ![d] = IF reply[d] = NoKey THEN @ ELSE reply[d]]
    /\ reply' = [reply EXCEPT ![d] = NoReply]
    /\ behind' = (behind /\ ~(d = "server" /\ reply[d] # NoKey /\ reply[d] = redis))
    /\ AfterRequest(d)
    /\ UNCHANGED <<up, notified, channelVars, backup, redis, edits, stores,
                   crashes, held>>

-----------------------------------------------------------------------------
(* The event loop of the backup service.                                   *)

BackupRecv(r) ==
    /\ backup.up /\ backup.pc = "recv"
    /\ r \in queue
    /\ queue' = queue \ {r}
    /\ backup' = [backup EXCEPT !.pc = "work", !.cur = r]
    /\ UNCHANGED <<daemonVars, sending, inbox, subscribed, redis, edits, stores,
                   crashes, behind, held>>

GetHierarchy ==
    /\ backup.up /\ backup.pc = "work" /\ backup.cur.kind = "get"
    /\ backup' = [backup EXCEPT !.pc = "reply", !.answer = redis]
    /\ UNCHANGED <<daemonVars, channelVars, redis, edits, stores, crashes, behind,
                   held>>

SetHierarchy ==
    /\ backup.up /\ backup.pc = "work" /\ backup.cur.kind = "set"
    /\ redis' = backup.cur.content
    /\ held' = held \cup {redis'}
    /\ backup' = [backup EXCEPT !.pc = "publish", !.answer = backup.cur.content]
    /\ UNCHANGED <<daemonVars, channelVars, edits, stores, crashes, behind>>

\* Mutant: the PUB socket has no limit.
Queued_NoLimit == sending + 1

\* The PUB socket drops what it has no room for.
Queued == IF sending < SendHighWater THEN sending + 1 ELSE sending

\* If a notification is lost and no other is left that makes the server ask, it
\* may lack the newest content from now on.
Missed(lost) == behind' = (behind \/ (lost /\ sending' = 0 /\ inbox' = 0))

\* Mutant: after publishing the loop goes back to recv.
Publish_NoReply ==
    /\ backup.up /\ backup.pc = "publish"
    /\ sending' = IF subscribed THEN Queued ELSE sending
    /\ UNCHANGED inbox
    /\ Missed(~subscribed)
    /\ backup' = IdleBackup
    /\ UNCHANGED <<daemonVars, subscribed, queue, redis, edits, stores, crashes, held>>

\* Nobody keeps a notification for a subscriber that is not there (yet).
Publish ==
    /\ backup.up /\ backup.pc = "publish"
    /\ sending' = IF subscribed THEN Queued ELSE sending
    /\ UNCHANGED inbox
    /\ Missed(~subscribed)
    /\ backup' = [backup EXCEPT !.pc = "reply"]
    /\ UNCHANGED <<daemonVars, subscribed, queue, redis, edits, stores, crashes, held>>

\* A published notification reaches the server's queue, if that has room, some
\* time later; one that was already sent also when its sender has ended since.
NotificationArrives ==
    /\ sending > 0 /\ inbox < HighWater
    /\ sending' = sending - 1
    /\ inbox' = inbox + 1
    /\ UNCHANGED <<daemonVars, subscribed, queue, backup, redis, edits, stores, crashes,
                   behind, held>>

\* The reply reaches the socket that sent the request, if it still exists.
BackupReply ==
    /\ backup.up /\ backup.pc = "reply"
    /\ reply' = [d \in Daemons |-> IF d = backup.cur.from THEN backup.answer ELSE reply[d]]
    /\ backup' = IdleBackup
    /\ UNCHANGED <<mem, up, pc, notified, channelVars, redis, edits, stores, crashes,
                   behind, held>>

-----------------------------------------------------------------------------
(* Processes that end and start.  Nothing of a daemon or of the backup     *)
(* service survives its process; redis keeps what was stored.              *)

\* An exception that leaves HandleReply or HandleSubscribe, or any other end of a
\* daemon.  A request it has sent may or may not still reach the backup service,
\* but its reply is for nobody.
Orphan(d, r) == IF r.from = d THEN [r EXCEPT !.from = "nobody"] ELSE r

DaemonStops(d) ==
    /\ up[d]
    /\ crashes < MaxCrashes
    /\ crashes' = crashes + 1
    /\ up' = [up EXCEPT ![d] = FALSE]
    /\ mem' = [mem EXCEPT ![d] = Empty]
    /\ pc' = [pc EXCEPT ![d] = "poll"]
    /\ reply' = [reply EXCEPT ![d] = NoReply]
    /\ \/ queue' = {Orphan(d, r) : r \in queue}
       \/ queue' = {r \in queue : r.from # d}
    /\ backup' = [backup EXCEPT !.cur = Orphan(d, @)]
    /\ IF d = "server"
       THEN /\ sending' = 0 /\ inbox' = 0
            /\ subscribed' = FALSE /\ notified' = FALSE /\ behind' = TRUE
       ELSE UNCHANGED <<sending, inbox, subscribed, notified, behind>>
    /\ UNCHANGED <<redis, edits, stores, held>>

\* StartApplication: the server does not ask for the state, it only subscribes.
DaemonStarts(d) ==
    /\ ~up[d]
    /\ up' = [up EXCEPT ![d] = TRUE]
    /\ UNCHANGED <<mem, pc, reply, notified, channelVars, backup, redis, edits,
                   stores, crashes, behind, held>>

\* connect is asynchronous: the subscription arrives some time later, and again
\* after a new backup service has bound the address.
SubscriptionArrives ==
    /\ up["server"] /\ backup.up /\ ~subscribed
    /\ subscribed' = TRUE
    /\ UNCHANGED <<daemonVars, sending, inbox, queue, backup, redis, edits, stores,
                   crashes, behind, held>>

\* The requests that had reached the process are lost, the others wait in the
\* sockets of their senders.  Lost is also what its own sockets have taken but not
\* sent: any of the notifications and replies that are under way.
BackupEnds(unpublished) ==
    /\ crashes < MaxCrashes
    /\ crashes' = crashes + 1
    /\ backup' = [IdleBackup EXCEPT !.up = FALSE]
    /\ \E lost \in SUBSET queue : queue' = queue \ lost
    /\ \E cut \in SUBSET Daemons :
          reply' = [d \in Daemons |-> IF d \in cut THEN NoReply ELSE reply[d]]
    /\ sending' \in 0..sending
    /\ UNCHANGED inbox
    /\ subscribed' = FALSE
    /\ Missed(unpublished \/ sending' < sending)
    /\ UNCHANGED <<mem, up, pc, notified, edits, stores>>

BackupStops ==
    /\ backup.up
    /\ BackupEnds(backup.pc = "publish")
    /\ UNCHANGED <<redis, held>>

\* redis++ throws and nothing catches it.  A set may have taken effect.
RedisFails ==
    /\ backup.up /\ backup.pc = "work"
    /\ \/ BackupEnds(FALSE) /\ UNCHANGED <<redis, held>>
       \/ /\ backup.cur.kind = "set"
          /\ redis' = backup.cur.content
          /\ held' = held \cup {redis'}
          /\ BackupEnds(TRUE)

BackupStarts ==
    /\ ~backup.up
    /\ backup' = IdleBackup
    /\ UNCHANGED <<daemonVars, channelVars, redis, edits, stores, crashes, behind, held>>

-----------------------------------------------------------------------------
Init ==
    /\ mem = [d \in Daemons |-> Empty]
    /\ up = [d \in Daemons |-> TRUE]
    /\ pc = [d \in Daemons |-> "poll"]
    /\ reply = [d \in Daemons |-> NoReply]
    /\ notified = FALSE
    /\ sending = 0 /\ inbox = 0
    /\ subscribed = FALSE
    /\ queue = {}
    /\ backup = IdleBackup
    /\ redis = NoKey
    /\ edits = 0 /\ stores = 0 /\ crashes = 0
    /\ behind = TRUE
    /\ held = {}

Daemon(d) ==
    \/ \E request, notification \in BOOLEAN : Poll(d, request, notification)
    \/ ServeRead(d)
    \/ ServeEdit(d)
    \/ ServeFlush(d)
    \/ StoreHierarchy(d)
    \/ StoreReturns(d)
    \/ RestoreHierarchy(d)
    \/ RestoreReturns(d)

Backup ==
    \/ \E r \in queue : BackupRecv(r)
    \/ GetHierarchy
    \/ SetHierarchy
    \/ Publish
    \/ BackupReply

Next ==
    \/ \E d \in Daemons : Daemon(d)
    \/ HandleSubscribe
    \/ Backup
    \/ SubscriptionArrives
    \/ NotificationArrives
    \/ \E d \in Daemons : DaemonStops(d) \/ DaemonStarts(d)
    \/ BackupStops
    \/ RedisFails
    \/ BackupStarts

\* A process that runs goes on with what it is doing: it handles a request that
\* poll has reported, reads a reply that has come, and the backup service works
\* through its queue, fairly between its peers (a REP socket fair-queues).  A
\* notification on its way arrives if its sender does not end before, and from
\* then on every poll reports it (strong fairness, as the daemon may be busy in
\* between).  Nothing is assumed of clients, nor that anybody restarts a process
\* that has ended.
Serve(d) == ServeRead(d) \/ ServeEdit(d) \/ ServeFlush(d) \/ StoreHierarchy(d)
                \/ RestoreHierarchy(d)
PollNotified == \E request \in BOOLEAN : Poll("server", request, TRUE)
RecvFrom(d) == \E r \in queue : r.from = d /\ BackupRecv(r)

Fairness ==
    /\ \A d \in Daemons :
          /\ WF_vars(Serve(d))
          /\ WF_vars(StoreReturns(d) \/ RestoreReturns(d))
          /\ SF_vars(RecvFrom(d))
    /\ SF_vars(PollNotified)
    /\ WF_vars(HandleSubscribe)
    /\ WF_vars(Backup)
    /\ WF_vars(SubscriptionArrives)
    /\ WF_vars(NotificationArrives)

Spec == Init /\ [][Next]_vars /\ Fairness

-----------------------------------------------------------------------------
(* Properties                                                              *)

\* Type invariant; the queues of notifications at both ends respect their limits.
TypeOK ==
    /\ mem \in [Daemons -> Contents]
    /\ up \in [Daemons -> BOOLEAN]
    /\ pc \in [Daemons -> {"poll", "request", "subscribe", "store", "restore"}]
    /\ reply \in [Daemons -> {NoReply, NoKey} \cup Contents]
    /\ notified \in BOOLEAN
    /\ sending \in 0..SendHighWater /\ inbox \in 0..HighWater
    /\ subscribed \in BOOLEAN
    /\ queue \subseteq Request
    /\ backup \in [up : BOOLEAN, pc : {"recv", "work", "publish", "reply"},
                   cur : Request \cup {NoRequest},
                   answer : {NoReply, NoKey} \cup Contents]
    /\ redis \in {NoKey} \cup Contents
    /\ edits \in 0..MaxEdits /\ stores \in 0..MaxStores /\ crashes \in 0..MaxCrashes
    /\ behind \in BOOLEAN
    /\ held \subseteq Contents

\* Something that will make the server read the present content of redis is
\* under way: a notification, received or not, one about to be published, or a
\* restore that has not read redis yet or has read what redis still holds.
Refreshing ==
    \/ inbox > 0 \/ sending > 0
    \/ backup.pc = "publish"
    \/ \E r \in queue : r.from = "server" /\ r.kind = "get"
    \/ /\ backup.cur.from = "server" /\ backup.cur.kind = "get"
       /\ backup.pc = "reply" => backup.answer = redis
    \/ pc["server"] = "restore" /\ reply["server"] = redis

\* A daemon whose request to the backup service is lost: it waits for a reply that
\* no process will send.
Waiting(d) == pc[d] \in {"store", "restore"} /\ reply[d] = NoReply
Blocked(d) == Waiting(d) /\ (\A r \in queue : r.from # d) /\ backup.cur.from # d

\* The server is stale only with a reason: it has not restored since it started,
\* it was edited itself, or its last notification was published while its
\* subscription was not there, was never published, or was lost on its way because
\* the backup service ended.  Otherwise it holds what redis holds, or is about to
\* ask, or waits for ever for a backup service that has ended.  So notifications
\* that are dropped because a queue is full, those that are lost while an earlier
\* one is still to be read, and stores that overtake a restore in progress do no
\* harm.
NoSilentStaleness ==
    up["server"] /\ ~behind /\ ~Blocked("server") => mem["server"] = redis \/ Refreshing

\* When store is answered with success, what it stored has been in redis, even if
\* the backup service ended in between or another daemon has stored since.
StoreIsDurable ==
    \A d \in Daemons : pc[d] = "store" /\ reply[d] # NoReply => mem[d] \in held

\* As long as no process ends, store and restore get their reply: neither daemon
\* waits for the other, nor the backup service for either.
RequestsAnswered == \A d \in Daemons : Waiting(d) ~> (~Waiting(d) \/ crashes > 0)

\* Once no more content is stored, a server that has missed nothing and is not
\* blocked holds what redis holds for good.
ServerCatchesUp ==
    <>[](up["server"] /\ backup.up /\ ~behind /\ ~Blocked("server")
            => mem["server"] = redis)

\* README: when a new state has been stored the server is notified, reacts, and
\* initializes itself with the newest state.
ServerGetsNewestState == <>[](redis # NoKey => mem["server"] = redis)
=============================================================================
