----------------------- MODULE HierarchyServiceProofs -----------------------
(***************************************************************************)
(* Proofs about HierarchyService for every bound on edits, stores, crashes *)
(* and notifications: the safety of the daemons, the backup service and    *)
(* redis together, with any process ending at any step.                    *)
(***************************************************************************)
EXTENDS HierarchyService, TLAPS

-----------------------------------------------------------------------------
(* The inductive invariant.                                                *)

\* The daemon that a request is from waits for its reply, in the operation that
\* sent it, and its hierarchy is still what it was then.
Owned(r) ==
    r.from \in Daemons =>
        /\ Waiting(r.from)
        /\ pc[r.from] = IF r.kind = "set" THEN "store" ELSE "restore"
        /\ r.content = mem[r.from]

\* Every request that the backup service has or will get is owned, and a daemon
\* has no second one; nobody is sent a reply that he does not wait for.
RequestsOwned ==
    /\ \A r \in queue : Owned(r) /\ (r.from \in Daemons => r.from # backup.cur.from)
    /\ Owned(backup.cur)
    /\ \A d \in Daemons : reply[d] # NoReply => pc[d] \in {"store", "restore"}

\* The backup service works at one request at a time, so its answer is what redis
\* holds until it is sent.
BackupConsistent ==
    /\ backup.pc = "recv" => backup.cur = NoRequest
    /\ ~backup.up => backup.pc = "recv"
    /\ backup.pc # "recv" => backup.cur.kind \in {"set", "get"}
    /\ backup.pc = "publish" => backup.cur.kind = "set"
    /\ backup.pc \in {"publish", "reply"} =>
          /\ backup.answer = redis
          /\ backup.cur.kind = "set" => backup.cur.content \in held

\* A notification that poll has reported is still in the queue.
NotificationKept ==
    /\ notified => inbox > 0
    /\ pc["server"] = "subscribe" => notified

\* A server that is not behind has once read from redis and runs; if it is about
\* to restore something that redis no longer holds, it will be notified: if the
\* last notification for it were lost, it would be behind.
StaleIsNotified ==
    ~behind =>
        /\ redis # NoKey
        /\ up["server"]
        /\ pc["server"] = "restore" /\ reply["server"] \notin {NoReply, redis} =>
              inbox > 0 \/ sending > 0 \/ backup.pc = "publish"

\* What is proved together: the first four parts are what keeps the last two,
\* which are properties of the runs.
SafetyInv ==
    /\ RequestsOwned
    /\ BackupConsistent
    /\ NotificationKept
    /\ StaleIsNotified
    /\ StoreIsDurable
    /\ NoSilentStaleness

Inv == TypeOK /\ SafetyInv

-----------------------------------------------------------------------------
(* Types.                                                                  *)

BackupRecord == [up : BOOLEAN, pc : {"recv", "work", "publish", "reply"},
                 cur : Request \cup {NoRequest}, answer : {NoReply, NoKey} \cup Contents]

\* What a daemon sends is a request.
LEMMA SendType ==
  ASSUME TypeOK, NEW d \in Daemons, NEW kind \in {"set", "get"}, Send(d, kind)
  PROVE  queue' \subseteq Request
BY DEF TypeOK, Send, Request

\* A request stays one when its daemon ends.
LEMMA OrphanType ==
  ASSUME NEW d \in Daemons, NEW r \in Request \cup {NoRequest}
  PROVE  /\ r \in Request => Orphan(d, r) \in Request
         /\ Orphan(d, r) \in Request \cup {NoRequest}
<1>1. CASE r.from = d
  <2>1. r \in Request
    BY <1>1 DEF NoRequest, Daemons
  <2> QED BY <1>1, <2>1 DEF Orphan, Request
<1>2. CASE r.from # d
  BY <1>2 DEF Orphan
<1> QED BY <1>1, <1>2

\* A backup service that is idle, and one that has ended.
LEMMA IdleBackupType ==
  /\ IdleBackup \in BackupRecord
  /\ [IdleBackup EXCEPT !.up = FALSE] \in BackupRecord
BY DEF IdleBackup, BackupRecord

\* However the backup service ends, only what redis holds is left to look at.
LEMMA BackupEndsType ==
  ASSUME Inv, NEW unpublished \in BOOLEAN, BackupEnds(unpublished),
         redis' \in {NoKey} \cup Contents, held' \subseteq Contents
  PROVE  TypeOK'
<1> USE ServiceAssumption DEF Inv, TypeOK, BackupEnds
<1>1. queue' \subseteq Request /\ backup' \in BackupRecord
  BY IdleBackupType
<1>2. behind' \in BOOLEAN /\ subscribed' \in BOOLEAN
  BY Zenon DEF Missed
<1>3. sending' \in 0..SendHighWater /\ crashes' \in 0..MaxCrashes
  OBVIOUS
<1>4. reply' \in [Daemons -> {NoReply, NoKey} \cup Contents]
  OBVIOUS
<1> QED BY <1>1, <1>2, <1>3, <1>4 DEF BackupRecord

\* Every step keeps the types.  That a notification can be taken from the queue
\* when HandleSubscribe does so is NotificationKept.
LEMMA TypeOKStep ==
  ASSUME Inv, [Next]_vars
  PROVE  TypeOK'
<1> USE ServiceAssumption DEF Inv, SafetyInv, TypeOK, daemonVars, channelVars, Contents,
        Empty, NoKey, NoReply
<1>1. ASSUME NEW d \in Daemons, NEW request \in BOOLEAN, NEW notification \in BOOLEAN,
              Poll(d, request, notification) PROVE TypeOK'
  BY <1>1 DEF Poll
<1>2. ASSUME NEW d \in Daemons, ServeRead(d) PROVE TypeOK'
  BY <1>2 DEF ServeRead, AfterRequest
<1>3. ASSUME NEW d \in Daemons, ServeEdit(d) PROVE TypeOK'
  BY <1>3 DEF ServeEdit, AfterRequest
<1>4. ASSUME NEW d \in Daemons, ServeFlush(d) PROVE TypeOK'
  BY <1>4 DEF ServeFlush, AfterRequest
<1>5. ASSUME NEW d \in Daemons, StoreHierarchy(d) PROVE TypeOK'
  <2>1. queue' \subseteq Request
    BY <1>5, SendType DEF StoreHierarchy
  <2> QED BY <1>5, <2>1 DEF StoreHierarchy
<1>6. ASSUME NEW d \in Daemons, StoreReturns(d) PROVE TypeOK'
  BY <1>6 DEF StoreReturns, AfterRequest
<1>7. ASSUME NEW d \in Daemons, RestoreHierarchy(d) PROVE TypeOK'
  <2>1. queue' \subseteq Request
    BY <1>7, SendType DEF RestoreHierarchy
  <2> QED BY <1>7, <2>1 DEF RestoreHierarchy
<1>8. ASSUME NEW d \in Daemons, RestoreReturns(d) PROVE TypeOK'
  BY <1>8 DEF RestoreReturns, AfterRequest
<1>9. ASSUME HandleSubscribe PROVE TypeOK'
  <2>1. queue' \subseteq Request
    BY <1>9, SendType DEF HandleSubscribe, Daemons
  <2>2. inbox' \in 0..HighWater
    BY <1>9 DEF HandleSubscribe, NotificationKept
  <2> QED BY <1>9, <2>1, <2>2 DEF HandleSubscribe, Daemons
<1>10. ASSUME NEW r \in queue, BackupRecv(r) PROVE TypeOK'
  BY <1>10 DEF BackupRecv
<1>11. ASSUME GetHierarchy PROVE TypeOK'
  BY <1>11 DEF GetHierarchy
<1>12. ASSUME SetHierarchy PROVE TypeOK'
  <2>1. backup.cur \in Request
    BY <1>12 DEF SetHierarchy, NoRequest
  <2>2. backup.cur.content \in Contents
    BY <2>1 DEF Request
  <2> QED BY <1>12, <2>2 DEF SetHierarchy
<1>13. ASSUME Publish PROVE TypeOK'
  <2>1. behind' \in BOOLEAN
    BY <1>13, Zenon DEF Publish, Missed
  <2> QED BY <1>13, <2>1 DEF Publish, Queued
<1>14. ASSUME BackupReply PROVE TypeOK'
  BY <1>14 DEF BackupReply, IdleBackup
<1>15. ASSUME SubscriptionArrives PROVE TypeOK'
  BY <1>15 DEF SubscriptionArrives
<1>16. ASSUME NEW d \in Daemons, DaemonStops(d) PROVE TypeOK'
  <2>1. queue' \subseteq Request
    BY <1>16, OrphanType DEF DaemonStops
  <2>2. Orphan(d, backup.cur) \in Request \cup {NoRequest}
    BY OrphanType
  <2>3. backup' \in BackupRecord
    BY <1>16, <2>2 DEF DaemonStops, BackupRecord
  <2>4. sending' \in 0..SendHighWater /\ inbox' \in 0..HighWater /\ subscribed' \in BOOLEAN /\ notified' \in BOOLEAN
        /\ behind' \in BOOLEAN
    <3>1. CASE d = "server"
      <4>1. sending' = 0 /\ inbox' = 0 /\ subscribed' = FALSE /\ notified' = FALSE /\ behind' = TRUE
        BY <1>16, <3>1, Zenon DEF DaemonStops
      <4>2. sending' \in 0..SendHighWater /\ inbox' \in 0..HighWater
        BY <4>1
      <4> QED BY <4>1, <4>2, Zenon
    <3>2. CASE d # "server"
      BY <1>16, <3>2 DEF DaemonStops
    <3> QED BY <3>1, <3>2
  <2> QED BY <1>16, <2>1, <2>3, <2>4 DEF DaemonStops, BackupRecord
<1>17. ASSUME NEW d \in Daemons, DaemonStarts(d) PROVE TypeOK'
  BY <1>17 DEF DaemonStarts
<1>18. ASSUME BackupStops PROVE TypeOK'
  <2>1. BackupEnds(backup.pc = "publish")
    BY <1>18 DEF BackupStops
  <2> QED BY <1>18, <2>1, BackupEndsType DEF BackupStops
<1>19. ASSUME RedisFails PROVE TypeOK'
  <2>1. ASSUME BackupEnds(FALSE), UNCHANGED <<redis, held>> PROVE TypeOK'
    BY <2>1, BackupEndsType
  <2>2. ASSUME backup.cur.kind = "set", redis' = backup.cur.content,
               held' = held \cup {redis'}, BackupEnds(TRUE)
        PROVE  TypeOK'
    <3>1. backup.cur.content \in Contents
      BY <2>2 DEF NoRequest, Request
    <3>2. redis' \in {NoKey} \cup Contents /\ held' \subseteq Contents
      BY <2>2, <3>1
    <3> QED BY <2>2, <3>2, BackupEndsType
  <2> QED BY <1>19, <2>1, <2>2 DEF RedisFails
<1>20. ASSUME BackupStarts PROVE TypeOK'
  BY <1>20 DEF BackupStarts, IdleBackup
<1>21. ASSUME NotificationArrives PROVE TypeOK'
  BY <1>21 DEF NotificationArrives
<1>22. ASSUME UNCHANGED vars PROVE TypeOK'
  BY <1>22 DEF vars
<1> QED
  BY <1>1, <1>2, <1>3, <1>4, <1>5, <1>6, <1>7, <1>8, <1>9, <1>10, <1>11,
     <1>12, <1>13, <1>14, <1>15, <1>16, <1>17, <1>18, <1>19, <1>20, <1>21, <1>22
  DEF Next, Daemon, Backup

-----------------------------------------------------------------------------
(* Safety.                                                                 *)

\* Every step keeps SafetyInv, whichever process takes it.  Where the parts meet:
\* StoreHierarchy, RestoreHierarchy and HandleSubscribe make an owned request,
\* SetHierarchy makes a stale reply and a stale server at once but is about to
\* publish, Publish fills an empty queue or finds it not empty, BackupReply
\* delivers what redis holds, and a backup service that ends leaves the owners of
\* what it lost Blocked.
LEMMA SafetyStep ==
  ASSUME Inv, [Next]_vars
  PROVE  SafetyInv'
<1> USE ServiceAssumption DEF Inv, SafetyInv, TypeOK, RequestsOwned, BackupConsistent,
        NotificationKept, StaleIsNotified, StoreIsDurable, NoSilentStaleness, Owned,
        Waiting, Blocked, Refreshing, daemonVars, channelVars, Daemons, Request,
        NoRequest, Contents, Empty, NoKey, NoReply
<1>1. ASSUME NEW d \in Daemons, NEW request \in BOOLEAN, NEW notification \in BOOLEAN,
              Poll(d, request, notification) PROVE SafetyInv'
  BY <1>1 DEF Poll
<1>2. ASSUME NEW d \in Daemons, ServeRead(d) PROVE SafetyInv'
  BY <1>2 DEF ServeRead, AfterRequest
<1>3. ASSUME NEW d \in Daemons, ServeEdit(d) PROVE SafetyInv'
  BY <1>3 DEF ServeEdit, AfterRequest
<1>4. ASSUME NEW d \in Daemons, ServeFlush(d) PROVE SafetyInv'
  BY <1>4 DEF ServeFlush, AfterRequest
<1>5. ASSUME NEW d \in Daemons, StoreHierarchy(d) PROVE SafetyInv'
  BY <1>5 DEF StoreHierarchy, Send
<1>6. ASSUME NEW d \in Daemons, StoreReturns(d) PROVE SafetyInv'
  BY <1>6 DEF StoreReturns, AfterRequest
<1>7. ASSUME NEW d \in Daemons, RestoreHierarchy(d) PROVE SafetyInv'
  BY <1>7 DEF RestoreHierarchy, Send
<1>8. ASSUME NEW d \in Daemons, RestoreReturns(d) PROVE SafetyInv'
  BY <1>8 DEF RestoreReturns, AfterRequest
<1>9. ASSUME HandleSubscribe PROVE SafetyInv'
  BY <1>9 DEF HandleSubscribe, Send
<1>10. ASSUME NEW r \in queue, BackupRecv(r) PROVE SafetyInv'
  BY <1>10 DEF BackupRecv
<1>11. ASSUME GetHierarchy PROVE SafetyInv'
  BY <1>11 DEF GetHierarchy
<1>12. ASSUME SetHierarchy PROVE SafetyInv'
  BY <1>12 DEF SetHierarchy
<1>13. ASSUME Publish PROVE SafetyInv'
  BY <1>13 DEF Publish, Queued, Missed
<1>14. ASSUME BackupReply PROVE SafetyInv'
  BY <1>14 DEF BackupReply, IdleBackup
<1>15. ASSUME SubscriptionArrives PROVE SafetyInv'
  BY <1>15 DEF SubscriptionArrives
<1>16. ASSUME NEW d \in Daemons, DaemonStops(d) PROVE SafetyInv'
  BY <1>16 DEF DaemonStops, Orphan
<1>17. ASSUME NEW d \in Daemons, DaemonStarts(d) PROVE SafetyInv'
  BY <1>17 DEF DaemonStarts
<1>18. ASSUME BackupStops PROVE SafetyInv'
  BY <1>18 DEF BackupStops, BackupEnds, Missed, IdleBackup
<1>19. ASSUME RedisFails PROVE SafetyInv'
  BY <1>19 DEF RedisFails, BackupEnds, Missed, IdleBackup
<1>20. ASSUME BackupStarts PROVE SafetyInv'
  BY <1>20 DEF BackupStarts, IdleBackup
<1>21. ASSUME NotificationArrives PROVE SafetyInv'
  BY <1>21 DEF NotificationArrives
<1>22. ASSUME UNCHANGED vars PROVE SafetyInv'
  BY <1>22 DEF vars
<1> HIDE DEF Inv, SafetyInv, TypeOK, Owned, Waiting, Blocked, Refreshing, daemonVars,
        channelVars, Daemons, Request, NoRequest, Contents, Empty, NoKey, NoReply
<1> QED
  BY <1>1, <1>2, <1>3, <1>4, <1>5, <1>6, <1>7, <1>8, <1>9, <1>10, <1>11,
     <1>12, <1>13, <1>14, <1>15, <1>16, <1>17, <1>18, <1>19, <1>20, <1>21, <1>22
  DEF Next, Daemon, Backup

\* The invariant holds initially and in every step.
LEMMA Invariant == Spec => []Inv
<1>1. Init => Inv
  <2> SUFFICES ASSUME Init PROVE TypeOK /\ SafetyInv
    BY DEF Inv
  <2>1. notified \in BOOLEAN /\ subscribed \in BOOLEAN /\ behind \in BOOLEAN
    BY Zenon DEF Init
  <2>2. up \in [Daemons -> BOOLEAN]
    BY Zenon DEF Init
  <2>3. TypeOK
    BY <2>1, <2>2, IdleBackupType, ServiceAssumption
    DEF Init, TypeOK, BackupRecord, Contents, Empty
  <2>4. SafetyInv
    BY DEF Init, SafetyInv, RequestsOwned, BackupConsistent, NotificationKept,
       StaleIsNotified, StoreIsDurable, NoSilentStaleness, Owned, Waiting, Blocked,
       Refreshing, Daemons, NoRequest, IdleBackup
  <2> QED BY <2>3, <2>4
<1>2. Inv /\ [Next]_vars => Inv'
  BY TypeOKStep, SafetyStep DEF Inv
<1> QED BY <1>1, <1>2, PTL DEF Spec

\* The variables keep their types; in particular the queue of notifications stays
\* within its limit and is never read when it is empty.
THEOREM ServiceTypeCorrect == Spec => []TypeOK
<1>1. Inv => TypeOK
  BY DEF Inv
<1> QED BY <1>1, Invariant, PTL

\* Whatever process ends, and however the requests of the two daemons interleave,
\* a store that returns has put its content into redis.
THEOREM StoresAreDurable == Spec => []StoreIsDurable
<1>1. Inv => StoreIsDurable
  BY DEF Inv, SafetyInv
<1> QED BY <1>1, Invariant, PTL

\* The server is stale only for one of the reasons that behind and Blocked record,
\* with a queue of any positive size, any number of stores, and any process ending.
THEOREM StalenessHasReason == Spec => []NoSilentStaleness
<1>1. Inv => NoSilentStaleness
  BY DEF Inv, SafetyInv
<1> QED BY <1>1, Invariant, PTL
=============================================================================
