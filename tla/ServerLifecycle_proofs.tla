---------------------- MODULE ServerLifecycle_proofs ------------------------
(***************************************************************************)
(* Proofs about ServerLifecycle for any number of jobs and of SIGHUPs,     *)
(* with and without TLS.                                                   *)
(***************************************************************************)
EXTENDS ServerLifecycle, FiniteSetTheorems, TLAPS

-----------------------------------------------------------------------------
(* The inductive invariant *)

\* The stretches of main.  The reload eventfd is announced to the signal
\* handler at the end of the first.
Early == {"config", "listen", "pool", "completion", "tls", "epoll", "stopHttp", "startHttp",
          "watchCompletion", "reload", "notify"}
Watching == {"watchReload", "watchHttp", "stopTls", "startTls", "watchTls", "loop"}
Leaving == {"scope", "stopListening", "shutdownPool"}
Places == Early \cup Watching \cup Leaving \cup {"unwind", "exited", "aborted"}

LifeType ==
  /\ pc \in Places /\ tls \in BOOLEAN /\ alive \in SUBSET Objects /\ code \in 0..2
  /\ open \in [Numbers -> Objects \cup {"file", "free"}]
  /\ held \in [Objects -> Numbers \cup {None}]
  /\ watch \in [Numbers -> Objects \cup {"none"}]
  /\ notify \in Numbers \cup {None} /\ hup \in Numbers \cup {None}
  /\ pool \in {"none", "running", "shutdown", "joined"} /\ jobs \in Nat
  /\ worker \in {"idle", "opens", "reads", "delivers"} /\ dangling \in BOOLEAN

\* A descriptor has one owner, who exists; a worker has at most one file open,
\* and only while it reads it.
Owned ==
  /\ \A o \in Objects : held[o] # None => o \in alive /\ open[held[o]] = o
  /\ \A n \in Numbers : open[n] \in Objects => held[open[n]] = n
  /\ held["pool"] = None
  /\ \A n \in Numbers : open[n] = "file" =>
       worker = "reads" /\ \A m \in Numbers : open[m] = "file" => m = n

\* What exists where.
Base == {"http", "pool", "completion"} \cup (IF tls THEN {"tls"} ELSE {})
Existing ==
  /\ pc \in {"config", "listen", "exited"} => alive = {}
  /\ pc \in {"pool", "aborted"} => alive = {"http"}
  /\ pc = "completion" => alive = {"http", "pool"}
  /\ pc = "tls" => alive = {"http", "pool", "completion"}
  /\ pc = "epoll" => alive = Base
  /\ pc \in {"stopHttp", "startHttp", "watchCompletion", "reload"} => alive = Base \cup {"epoll"}
  /\ pc \in {"notify"} \cup Watching => alive = Base \cup {"epoll", "reload"}
  /\ pc \in Leaving => Base \subseteq alive
  /\ pc \in {"tls", "stopTls", "startTls", "watchTls"} => tls
  /\ pool \in {"running", "shutdown"} => "pool" \in alive

\* The pool runs until main shuts it down, jobs are there only from the loop
\* on, and main that returns 0 has joined the workers.
Working ==
  /\ pc \in {"completion", "tls", "epoll", "stopHttp", "startHttp", "watchCompletion", "reload",
             "notify", "scope", "stopListening"} \cup Watching => pool = "running"
  /\ pool \in {"none", "joined"} => jobs = 0 /\ worker = "idle"
  /\ jobs > 0 \/ worker # "idle" => pc \in {"loop", "unwind"} \cup Leaving
  /\ pc \in Early \cup Watching => code = 2
  /\ pc \in Leaving => code = 0
  /\ pc \in {"unwind", "exited"} => code = 1 \/ (code = 0 /\ pool = "joined")
  /\ dangling => code = 1

\* The number w that request_reload has or had from main: before the loop ends
\* it is the eventfd's, and later nobody else's who could be written to.
Notifies(w) ==
  w # None => /\ pc \notin Early \cup {"aborted"}
              /\ pc \in Watching => open[w] = "reload"
              /\ open[w] \in {"reload", "free", "file"}
Notified ==
  /\ Notifies(notify) /\ Notifies(hup)
  /\ pc \in {"notify", "watchReload"} => held["reload"] # None
  /\ pc \in Watching \ {"watchReload"} /\ notify # None => watch[notify] = "reload"
  /\ stray = {}

\* The listeners on the way to the loop.
Listening ==
  /\ pc = "startHttp" => held["http"] = None
  /\ pc \in {"watchCompletion", "reload", "notify"} \cup Watching =>
       held["http"] # None /\ "http" \notin blocking
  /\ pc \in {"stopTls", "startTls", "watchTls", "loop"} => watch[held["http"]] = "http"
  /\ pc = "startTls" => held["tls"] = None
  /\ pc = "watchTls" \/ (pc = "loop" /\ tls) => held["tls"] # None /\ "tls" \notin blocking
  /\ pc = "loop" /\ tls => watch[held["tls"]] = "tls"

LifeInv == LifeType /\ Owned /\ Existing /\ Working /\ Notified /\ Listening

-----------------------------------------------------------------------------
(* Descriptors *)

LEMMA ObjectsAre ==
  /\ Objects = {"http", "pool", "completion", "tls", "epoll", "reload"}
  /\ IsFiniteSet(Objects) /\ Cardinality(Objects) = 6 /\ Numbers = 1..6
  /\ DOMAIN Order = 1..6
  <1>1. DOMAIN Order = 1..6
    BY DEF Order
  <1>2. Objects = {"http", "pool", "completion", "tls", "epoll", "reload"}
    <2>1. /\ Order[1] = "http" /\ Order[2] = "pool" /\ Order[3] = "completion"
          /\ Order[4] = "tls" /\ Order[5] = "epoll" /\ Order[6] = "reload"
      BY DEF Order
    <2>2. \A i \in 1..6 : i = 1 \/ i = 2 \/ i = 3 \/ i = 4 \/ i = 5 \/ i = 6
      OBVIOUS
    <2>3. Objects = {Order[i] : i \in 1..6}
      BY <1>1 DEF Objects, Range
    <2> QED
      BY <2>1, <2>2, <2>3
  <1>3. IsFiniteSet({}) /\ Cardinality({}) = 0
    BY FS_EmptySet
  <1>4. IsFiniteSet({"http"}) /\ Cardinality({"http"}) = 1
    BY FS_Singleton
  <1>5. IsFiniteSet({"http"} \cup {"pool"}) /\ Cardinality({"http"} \cup {"pool"}) = 2
    BY <1>4, FS_AddElement
  <1>6. /\ IsFiniteSet(({"http"} \cup {"pool"}) \cup {"completion"})
        /\ Cardinality(({"http"} \cup {"pool"}) \cup {"completion"}) = 3
    BY <1>5, FS_AddElement
  <1>7. /\ IsFiniteSet((({"http"} \cup {"pool"}) \cup {"completion"}) \cup {"tls"})
        /\ Cardinality((({"http"} \cup {"pool"}) \cup {"completion"}) \cup {"tls"}) = 4
    BY <1>6, FS_AddElement
  <1>8. /\ IsFiniteSet(((({"http"} \cup {"pool"}) \cup {"completion"}) \cup {"tls"}) \cup {"epoll"})
        /\ Cardinality(((({"http"} \cup {"pool"}) \cup {"completion"}) \cup {"tls"}) \cup {"epoll"}) = 5
    BY <1>7, FS_AddElement
  <1>9. /\ IsFiniteSet((((({"http"} \cup {"pool"}) \cup {"completion"}) \cup {"tls"}) \cup {"epoll"}) \cup {"reload"})
        /\ Cardinality((((({"http"} \cup {"pool"}) \cup {"completion"}) \cup {"tls"}) \cup {"epoll"}) \cup {"reload"}) = 6
    BY <1>8, FS_AddElement
  <1>10. Objects = (((({"http"} \cup {"pool"}) \cup {"completion"}) \cup {"tls"}) \cup {"epoll"}) \cup {"reload"}
    BY <1>2
  <1> QED
    BY <1>1, <1>2, <1>9, <1>10 DEF Numbers

\* A number is free whenever main or a worker opens one: the others' owners,
\* with "pool" in place of the worker's file, leave one out.
LEMMA LowestIsFree ==
  ASSUME LifeType, Owned, NEW o \in Objects, held[o] = None,
         o = "pool" => worker # "reads"
  PROVE  Lowest(open) \in Numbers /\ open[Lowest(open)] = "free"
  <1>1. \E n \in Numbers : open[n] = "free"
    <2> SUFFICES ASSUME \A n \in Numbers : open[n] # "free" PROVE FALSE
      OBVIOUS
    <2>1. PICK g : g = [n \in Numbers |-> IF open[n] = "file" THEN "pool" ELSE open[n]]
      OBVIOUS
    <2>2. \A n \in Numbers : g[n] = IF open[n] = "file" THEN "pool" ELSE open[n]
      BY <2>1
    <2>3. "pool" \in Objects /\ "file" \notin Objects /\ "free" \notin Objects
      BY ObjectsAre
    <2>4. \A n \in Numbers : open[n] \in Objects \cup {"file"} /\ n # None
      BY ObjectsAre DEF LifeType, None
    <2>5. ASSUME NEW n \in Numbers PROVE g[n] \in Objects \ {o}
      <3>1. CASE open[n] = "file"
        BY <2>2, <2>3, <3>1 DEF Owned
      <3>2. CASE open[n] \in Objects
        <4>1. held[open[n]] = n
          BY <3>2 DEF Owned
        <4> QED
          BY <2>2, <2>3, <2>4, <3>2, <4>1
      <3> QED
        BY <2>4, <3>1, <3>2
    <2>6. ASSUME NEW m \in Numbers, NEW n \in Numbers, g[m] = g[n] PROVE m = n
      <3>1. CASE open[m] = "file" /\ open[n] = "file"
        BY <3>1 DEF Owned
      <3>2. CASE open[m] \in Objects /\ open[n] \in Objects
        BY <2>2, <2>3, <2>6, <3>2 DEF Owned
      <3>3. \A k \in Numbers : open[k] # "pool"
        BY <2>3, <2>4 DEF Owned
      <3> QED
        BY <2>2, <2>3, <2>4, <2>6, <3>1, <3>2, <3>3
    <2>7. g \in [Numbers -> Objects \ {o}]
      BY <2>1, <2>5
    <2>8. IsFiniteSet(Numbers) /\ Cardinality(Numbers) = 6
      <3>1. PICK a \in Int : a = 1
        OBVIOUS
      <3>2. PICK b \in Int : b = 6
        OBVIOUS
      <3>3. IsFiniteSet(a..b) /\ Cardinality(a..b) = IF a > b THEN 0 ELSE b - a + 1
        BY FS_Interval
      <3>4. Numbers = a..b
        BY <3>1, <3>2, ObjectsAre
      <3>5. (IF a > b THEN 0 ELSE b - a + 1) = 6
        BY <3>1, <3>2
      <3> QED
        BY <3>3, <3>4, <3>5
    <2>9. IsFiniteSet(Objects \ {o}) /\ Cardinality(Objects \ {o}) = 5
      <3>1. IsFiniteSet(Objects) /\ Cardinality(Objects) = 6
        BY ONLY ObjectsAre
      <3>2. /\ IsFiniteSet(Objects \ {o})
            /\ Cardinality(Objects \ {o}) = IF o \in Objects THEN Cardinality(Objects) - 1
                                             ELSE Cardinality(Objects)
        BY ONLY <3>1, FS_RemoveElement, Zenon
      <3> QED
        BY ONLY <3>1, <3>2, o \in Objects
    <2>10. \E m, n \in Numbers : m # n /\ g[m] = g[n]
      BY <2>7, <2>8, <2>9, FS_PigeonHole
    <2> QED
      BY <2>6, <2>10
  <1>2. PICK S : S = {n \in Numbers : open[n] = "free"}
    OBVIOUS
  <1>3. S \subseteq 1..6 /\ S # {}
    BY <1>1, <1>2, ObjectsAre
  <1>4. \E x \in S : \A y \in S : x <= y
    <2>1. \A y \in S : y \in Nat /\ (y = 1 \/ y = 2 \/ y = 3 \/ y = 4 \/ y = 5 \/ y = 6)
      BY <1>3
    <2>2. CASE 1 \in S
      BY <2>1, <2>2
    <2>3. CASE 1 \notin S /\ 2 \in S
      BY <2>1, <2>3
    <2>4. CASE 1 \notin S /\ 2 \notin S /\ 3 \in S
      BY <2>1, <2>4
    <2>5. CASE 1 \notin S /\ 2 \notin S /\ 3 \notin S /\ 4 \in S
      BY <2>1, <2>5
    <2>6. CASE 1 \notin S /\ 2 \notin S /\ 3 \notin S /\ 4 \notin S
      <3>1. PICK z \in S : z = 5 \/ z = 6
        BY <1>3, <2>1, <2>6
      <3>2. \A y \in S : y = 5 \/ y = 6
        BY <2>1, <2>6
      <3> QED
        BY <3>1, <3>2
    <2> QED
      BY <2>2, <2>3, <2>4, <2>5, <2>6
  <1>5. Min(S) \in S
    BY <1>4 DEF Min
  <1> QED
    BY <1>2, <1>5 DEF Lowest

\* What a step does to the descriptors: main lets o take one or give it back.
Takes(o) ==
  /\ pc \in Early \cup Watching /\ o \in Objects \ {"pool"} /\ held[o] = None
  /\ o \in alive' /\ alive \subseteq alive'
  /\ Acquire(o) /\ UNCHANGED <<watch, worker>>
Gives(o) ==
  /\ o \in Objects /\ alive \ {o} \subseteq alive'
  /\ pc' \in Early \cup Watching => o # "reload"
  /\ Reset(o) /\ UNCHANGED worker

LEMMA TakesFacts ==
  ASSUME LifeType, Owned, NEW o, Takes(o)
  PROVE  \E k \in Numbers :
           /\ open[k] = "free" /\ k # None
           /\ open' \in [Numbers -> Objects \cup {"file", "free"}] /\ open'[k] = o
           /\ \A n \in Numbers : n # k => open'[n] = open[n]
           /\ held' \in [Objects -> Numbers \cup {None}] /\ held'[o] = k
           /\ \A x \in Objects : x # o => held'[x] = held[x]
  <1>1. PICK k : k = Lowest(open)
    OBVIOUS
  <1>2. k \in Numbers /\ open[k] = "free"
    BY <1>1, LowestIsFree DEF Takes
  <1>3. k # None
    BY <1>2, ObjectsAre DEF None
  <1>4. open' = [open EXCEPT ![k] = o] /\ held' = [held EXCEPT ![o] = k] /\ o \in Objects
    BY <1>1 DEF Takes, Acquire, Opened
  <1> QED
    BY <1>2, <1>3, <1>4 DEF LifeType

LEMMA GivesFacts ==
  ASSUME LifeType, Owned, NEW o, Gives(o)
  PROVE  /\ open' \in [Numbers -> Objects \cup {"file", "free"}]
         /\ held' \in [Objects -> Numbers \cup {None}] /\ held'[o] = None
         /\ watch' \in [Numbers -> Objects \cup {"none"}]
         /\ held[o] # None => open'[held[o]] = "free"
         /\ \A n \in Numbers : n # held[o] => open'[n] = open[n] /\ watch'[n] = watch[n]
         /\ \A x \in Objects : x # o => held'[x] = held[x]
  BY DEF Gives, Reset, Closed, Unwatched, LifeType

\* The object that goes next when main returns.
LastAlive == Order[Max({i \in DOMAIN Order : Order[i] \in alive})]

LEMMA LastAliveFacts ==
  ASSUME alive \in SUBSET Objects, alive # {}
  PROVE  LastAlive \in alive
  <1>1. PICK S : S = {i \in DOMAIN Order : Order[i] \in alive}
    OBVIOUS
  <1>2. S \subseteq 1..6 /\ S # {}
    BY <1>1, ObjectsAre DEF Objects, Range
  <1>3. \E x \in S : \A y \in S : x >= y
    <2>1. \A y \in S : y \in Nat /\ (y = 1 \/ y = 2 \/ y = 3 \/ y = 4 \/ y = 5 \/ y = 6)
      BY <1>2
    <2>2. CASE 6 \in S
      BY <2>1, <2>2
    <2>3. CASE 6 \notin S /\ 5 \in S
      BY <2>1, <2>3
    <2>4. CASE 6 \notin S /\ 5 \notin S /\ 4 \in S
      BY <2>1, <2>4
    <2>5. CASE 6 \notin S /\ 5 \notin S /\ 4 \notin S /\ 3 \in S
      BY <2>1, <2>5
    <2>6. CASE 6 \notin S /\ 5 \notin S /\ 4 \notin S /\ 3 \notin S
      <3>1. PICK z \in S : z = 1 \/ z = 2
        BY <1>2, <2>1, <2>6
      <3>2. \A y \in S : y = 1 \/ y = 2
        BY <2>1, <2>6
      <3> QED
        BY <3>1, <3>2
    <2> QED
      BY <2>2, <2>3, <2>4, <2>5, <2>6
  <1>4. Max(S) \in S
    BY <1>3 DEF Max
  <1> QED
    BY <1>1, <1>4 DEF LastAlive

\* main returning: it is over, it shuts the queue, or it destroys an object,
\* the pool only when its workers have ended.
LEMMA UnwindCases ==
  ASSUME alive \in SUBSET Objects, Unwind
  PROVE  /\ pc = "unwind" /\ UNCHANGED <<tls, blocking, code, signalVars, jobs, submitted, worker, dangling>>
         /\ \/ alive = {} /\ pc' = "exited" /\ UNCHANGED <<alive, watch, fdVars, pool>>
            \/ /\ pool = "running" /\ pool' = "shutdown" /\ UNCHANGED <<pc, alive, watch, fdVars>>
            \/ /\ LastAlive \in Objects /\ (LastAlive = "pool" => pool = "joined")
               /\ Destroy(LastAlive) /\ UNCHANGED <<pc, pool>>
  <1>1. CASE alive = {}
    BY <1>1 DEF Unwind, MainAt, poolVars
  <1>2. CASE alive # {} /\ LastAlive = "pool" /\ pool = "running"
    BY <1>2 DEF Unwind, MainAt, LastAlive, ShutdownQueue, mainVars
  <1>3. CASE alive # {} /\ ~(LastAlive = "pool" /\ pool = "running")
    <2>1. LastAlive \in Objects
      BY <1>3, LastAliveFacts
    <2> QED
      BY <1>3, <2>1 DEF Unwind, MainAt, LastAlive, poolVars
  <1> QED
    BY <1>1, <1>2, <1>3

\* What a step does to the descriptors.
Same == /\ UNCHANGED <<open, held>> /\ alive \subseteq alive'
        /\ worker = "reads" => worker' = "reads"

\* Which action takes or gives back which descriptor.
LEMMA FdActions ==
  ASSUME LifeInv
  PROVE  /\ Listen("listen", "http", "pool") => Takes("http")
         /\ Listen("tls", "tls", "epoll") => Takes("tls")
         /\ StartEpoll => Takes("epoll")
         /\ Restart("startHttp", "http", "watchCompletion") => Takes("http")
         /\ Restart("startTls", "tls", "watchTls") => Takes("tls")
         /\ \A works \in BOOLEAN : StartCompletion(works) => Same \/ Takes("completion")
         /\ \A works \in BOOLEAN : StartReload(works) => IF works THEN Takes("reload") ELSE Same
         /\ StopListener("stopHttp", "http", "startHttp") => Gives("http")
         /\ StopListener("stopTls", "tls", "startTls") => Gives("tls")
         /\ StopListening => Gives("http")
         /\ EndScope => Same \/ Gives("reload") \/ Gives("epoll")
  <1>1. Owned /\ Existing /\ Listening
    BY DEF LifeInv
  <1>2. /\ Listen("listen", "http", "pool") => Takes("http")
        /\ Listen("tls", "tls", "epoll") => Takes("tls")
    BY <1>1, ObjectsAre DEF Listen, MainAt, Construct, Takes, Owned, Existing, Early, poolVars
  <1>3. StartEpoll => Takes("epoll")
    BY <1>1, ObjectsAre DEF StartEpoll, MainAt, Construct, Takes, Owned, Existing, Base, Early, poolVars
  <1>4. /\ Restart("startHttp", "http", "watchCompletion") => Takes("http")
        /\ Restart("startTls", "tls", "watchTls") => Takes("tls")
    BY <1>1, ObjectsAre DEF Restart, MainAt, Takes, Existing, Listening, Base, Early, Watching, poolVars
  <1>5. ASSUME NEW works \in BOOLEAN, StartCompletion(works) PROVE Same \/ Takes("completion")
    BY <1>1, <1>5, ObjectsAre DEF StartCompletion, MainAt, Construct, Same, Takes, Owned, Existing,
       Early, fdVars, poolVars
  <1>6. ASSUME NEW works \in BOOLEAN, StartReload(works) PROVE IF works THEN Takes("reload") ELSE Same
    BY <1>1, <1>6, ObjectsAre DEF StartReload, MainAt, Construct, Same, Takes, Owned, Existing, Base,
       Early, fdVars, poolVars
  <1>7. /\ StopListener("stopHttp", "http", "startHttp") => Gives("http")
        /\ StopListener("stopTls", "tls", "startTls") => Gives("tls")
        /\ StopListening => Gives("http")
    BY ObjectsAre DEF StopListening, StopListener, Gives, poolVars
  <1>8. EndScope => Same \/ Gives("reload") \/ Gives("epoll")
    BY ObjectsAre DEF EndScope, MainAt, Destroy, Same, Gives, Early, Watching, fdVars, poolVars
  <1> QED
    BY <1>2, <1>3, <1>4, <1>5, <1>6, <1>7, <1>8

LEMMA FdCases ==
  ASSUME LifeInv, [Next]_vars
  PROVE  Same \/ (\E o : Takes(o)) \/ (\E o : Gives(o)) \/ OpenFile \/ CloseFile
  <1>1. CASE Configure
    BY <1>1 DEF Configure, MainAt, Same, mainVars, fdVars, signalVars, poolVars
  <1>2. CASE Listen("listen", "http", "pool")
    BY <1>2, FdActions
  <1>3. CASE StartPool
    BY <1>3 DEF StartPool, MainAt, Construct, Same, mainVars, fdVars, signalVars, poolVars
  <1>4. CASE PoolTerminates
    BY <1>4 DEF PoolTerminates, MainAt, Same, mainVars, fdVars, signalVars, poolVars
  <1>5. ASSUME NEW works \in BOOLEAN, StartCompletion(works) PROVE Same \/ (\E o : Takes(o)) \/ (\E o : Gives(o))
    BY <1>5, FdActions
  <1>6. CASE Listen("tls", "tls", "epoll")
    BY <1>6, FdActions
  <1>7. CASE StartEpoll
    BY <1>7, FdActions
  <1>8. CASE StopListener("stopHttp", "http", "startHttp")
    BY <1>8, FdActions
  <1>9. CASE Restart("startHttp", "http", "watchCompletion")
    BY <1>9, FdActions
  <1>10. ASSUME NEW works \in BOOLEAN, WatchCompletion(works) PROVE Same \/ (\E o : Takes(o)) \/ (\E o : Gives(o))
    BY <1>10 DEF WatchCompletion, MainAt, Same, mainVars, fdVars, signalVars, poolVars
  <1>11. ASSUME NEW works \in BOOLEAN, StartReload(works) PROVE Same \/ (\E o : Takes(o)) \/ (\E o : Gives(o))
    BY <1>11, FdActions
  <1>12. CASE SetNotify
    BY <1>12 DEF SetNotify, MainAt, Same, mainVars, fdVars, signalVars, poolVars
  <1>13. ASSUME NEW works \in BOOLEAN, WatchReload(works) PROVE Same \/ (\E o : Takes(o)) \/ (\E o : Gives(o))
    BY <1>13 DEF WatchReload, MainAt, Same, mainVars, fdVars, signalVars, poolVars
  <1>14. CASE WatchListener("watchHttp", "http", IF tls THEN "stopTls" ELSE "loop")
    BY <1>14 DEF WatchListener, MainAt, Same, mainVars, fdVars, signalVars, poolVars
  <1>15. CASE StopListener("stopTls", "tls", "startTls")
    BY <1>15, FdActions
  <1>16. CASE Restart("startTls", "tls", "watchTls")
    BY <1>16, FdActions
  <1>17. CASE WatchListener("watchTls", "tls", "loop")
    BY <1>17 DEF WatchListener, MainAt, Same, mainVars, fdVars, signalVars, poolVars
  <1>18. ASSUME NEW p \in {"config", "listen", "pool", "tls", "epoll", "startHttp", "watchHttp", "startTls", "watchTls", "loop"}, GiveUp(p) PROVE Same \/ (\E o : Takes(o)) \/ (\E o : Gives(o))
    BY <1>18 DEF GiveUp, MainAt, Same, mainVars, fdVars, signalVars, poolVars
  <1>19. CASE Submit
    BY <1>19 DEF Submit, MainAt, Same, mainVars, fdVars, signalVars, poolVars
  <1>20. CASE LeaveLoop
    BY <1>20 DEF LeaveLoop, MainAt, Same, mainVars, fdVars, signalVars, poolVars
  <1>21. CASE EndScope
    BY <1>21, FdActions
  <1>22. CASE StopListening
    BY <1>22, FdActions
  <1>23. CASE ShutdownPool
    BY <1>23 DEF ShutdownPool, ShutdownQueue, Join, MainAt, Same, mainVars, fdVars, signalVars, poolVars
  <1>24. CASE Unwind
    <2>1. Same \/ Gives(LastAlive)
      BY <1>24, UnwindCases DEF Same, Gives, Destroy, LifeInv, LifeType, fdVars, Early, Watching
    <2> QED
      BY <2>1
  <1>25. CASE TakeJob
    BY <1>25 DEF TakeJob, WorkerStep, Same, mainVars, fdVars, signalVars, poolVars
  <1>26. CASE OpenFile
    BY <1>26
  <1>27. CASE CloseFile
    BY <1>27
  <1>28. CASE Deliver
    BY <1>28 DEF Deliver, WorkerStep, Same, mainVars, fdVars, signalVars, poolVars
  <1>29. CASE WorkerExits
    BY <1>29 DEF WorkerExits, Same, mainVars, fdVars, signalVars, poolVars
  <1>30. CASE SigTerm
    BY <1>30 DEF SigTerm, Same, mainVars, fdVars, signalVars, poolVars
  <1>31. CASE SigHup
    BY <1>31 DEF SigHup, Same, mainVars, fdVars, signalVars, poolVars
  <1>32. CASE WriteWakeup
    BY <1>32 DEF WriteWakeup, Same, mainVars, fdVars, signalVars, poolVars
  <1>33. CASE UNCHANGED vars
    BY <1>33 DEF vars, Same, mainVars, fdVars, signalVars, poolVars
  <1> QED
    BY <1>1, <1>2, <1>3, <1>4, <1>5, <1>6, <1>7, <1>8, <1>9, <1>10, <1>11, <1>12, <1>13, <1>14,
       <1>15, <1>16, <1>17, <1>18, <1>19, <1>20, <1>21, <1>22, <1>23, <1>24, <1>25, <1>26,
       <1>27, <1>28, <1>29, <1>30, <1>31, <1>32, <1>33 DEF Next, Startup, Shutdown, LoopThrows,
       WorkerThread, Ended

\* read_file's descriptor.
LEMMA OpenFileFacts ==
  ASSUME LifeInv, OpenFile
  PROVE  /\ worker' = "reads" /\ UNCHANGED <<mainVars, held, signalVars, pool, jobs, dangling>>
         /\ \E k \in Numbers :
              /\ open[k] = "free"
              /\ open' \in [Numbers -> Objects \cup {"file", "free"}] /\ open'[k] = "file"
              /\ \A n \in Numbers : open[n] # "file" /\ (n # k => open'[n] = open[n])
  <1>1. worker = "opens" /\ open' = Opened("file", open) /\ UNCHANGED <<mainVars, held, signalVars, pool, jobs, dangling>>
        /\ worker' = "reads"
    BY DEF OpenFile, WorkerStep
  <1>2. PICK k : k = Lowest(open)
    OBVIOUS
  <1>3. "pool" \in Objects
    BY ObjectsAre
  <1>4. k \in Numbers /\ open[k] = "free"
    BY <1>1, <1>2, <1>3, LowestIsFree DEF LifeInv, Owned
  <1>5. \A n \in Numbers : open[n] # "file"
    BY <1>1 DEF LifeInv, Owned
  <1>6. open' = [open EXCEPT ![k] = "file"] /\ open \in [Numbers -> Objects \cup {"file", "free"}]
    BY <1>1, <1>2 DEF Opened, LifeInv, LifeType
  <1> QED
    BY <1>1, <1>4, <1>5, <1>6

LEMMA CloseFileFacts ==
  ASSUME LifeInv, CloseFile
  PROVE  /\ worker' = "delivers" /\ UNCHANGED <<mainVars, held, signalVars, pool, jobs, dangling>>
         /\ open' \in [Numbers -> Objects \cup {"file", "free"}]
         /\ \A n \in Numbers : open'[n] = IF open[n] = "file" THEN "free" ELSE open[n]
  BY DEF CloseFile, WorkerStep, LifeInv, LifeType

LEMMA OwnedStep ==
  ASSUME LifeInv, [Next]_vars
  PROVE  Owned'
  <1>1. LifeType /\ Owned
    BY DEF LifeInv
  <1>2. "file" \notin Objects /\ "free" \notin Objects /\ "pool" \in Objects
    BY ObjectsAre
  <1>3. CASE Same
    BY <1>1, <1>3 DEF Same, Owned
  <1>4. ASSUME NEW o, Takes(o) PROVE Owned'
    <2>1. PICK k \in Numbers :
           /\ open[k] = "free" /\ k # None
           /\ open' \in [Numbers -> Objects \cup {"file", "free"}] /\ open'[k] = o
           /\ \A n \in Numbers : n # k => open'[n] = open[n]
           /\ held' \in [Objects -> Numbers \cup {None}] /\ held'[o] = k
           /\ \A x \in Objects : x # o => held'[x] = held[x]
      BY <1>1, <1>4, TakesFacts
    <2>2. o \in Objects \ {"pool"} /\ held[o] = None /\ o \in alive' /\ alive \subseteq alive' /\ worker' = worker
      BY <1>4 DEF Takes
    <2>3. ASSUME NEW x \in Objects, held'[x] # None PROVE x \in alive' /\ open'[held'[x]] = x
      <3>1. CASE x = o
        BY <2>1, <2>2, <3>1
      <3>2. CASE x # o
        <4>1. held'[x] = held[x] /\ x \in alive /\ open[held[x]] = x
          BY <1>1, <2>1, <2>3, <3>2 DEF Owned
        <4>2. held[x] \in Numbers /\ held[x] # k
          BY <1>1, <1>2, <2>1, <2>3, <4>1 DEF LifeType
        <4> QED
          BY <2>1, <2>2, <4>1, <4>2
      <3> QED
        BY <3>1, <3>2
    <2>4. ASSUME NEW n \in Numbers, open'[n] \in Objects PROVE held'[open'[n]] = n
      <3>1. CASE n = k
        BY <2>1, <3>1
      <3>2. CASE n # k
        <4>1. open'[n] = open[n] /\ held[open[n]] = n
          BY <1>1, <2>1, <2>4, <3>2 DEF Owned
        <4>2. open[n] # o
          BY <2>2, <4>1, ObjectsAre DEF None
        <4> QED
          BY <2>1, <2>4, <4>1, <4>2
      <3> QED
        BY <3>1, <3>2
    <2>5. held'["pool"] = None
      BY <1>1, <1>2, <2>1, <2>2 DEF Owned
    <2>6. \A n \in Numbers : open'[n] = "file" => open[n] = "file"
      BY <1>2, <2>1, <2>2
    <2>7. \A n \in Numbers : open'[n] = "file" =>
             worker' = "reads" /\ \A m \in Numbers : open'[m] = "file" => m = n
      BY <1>1, <2>2, <2>6 DEF Owned
    <2> QED
      BY <2>3, <2>4, <2>5, <2>7 DEF Owned
  <1>5. ASSUME NEW o, Gives(o) PROVE Owned'
    <2>1. /\ held'[o] = None
          /\ held[o] # None => open'[held[o]] = "free"
          /\ \A n \in Numbers : n # held[o] => open'[n] = open[n]
          /\ \A x \in Objects : x # o => held'[x] = held[x]
      BY <1>1, <1>5, GivesFacts
    <2>2. o \in Objects /\ alive \ {o} \subseteq alive' /\ worker' = worker
      BY <1>5 DEF Gives
    <2>3. ASSUME NEW x \in Objects, held'[x] # None PROVE x \in alive' /\ open'[held'[x]] = x
      <3>1. x # o /\ held'[x] = held[x]
        BY <2>1, <2>3
      <3>2. x \in alive /\ open[held[x]] = x /\ held[x] \in Numbers
        BY <1>1, <2>3, <3>1 DEF Owned, LifeType
      <3>3. held[x] # held[o]
        BY <1>1, <2>2, <2>3, <3>1, <3>2 DEF Owned
      <3> QED
        BY <2>1, <2>2, <3>1, <3>2, <3>3
    <2>4. ASSUME NEW n \in Numbers, open'[n] \in Objects PROVE held'[open'[n]] = n
      <3>1. n # held[o]
        BY <1>2, <2>1, <2>4, ObjectsAre DEF None
      <3>2. open'[n] = open[n] /\ held[open[n]] = n
        BY <1>1, <2>1, <2>4, <3>1 DEF Owned
      <3> QED
        BY <2>1, <2>4, <3>1, <3>2
    <2>5. held'["pool"] = None
      BY <1>1, <1>2, <2>1 DEF Owned
    <2>6. \A n \in Numbers : open'[n] = "file" => open[n] = "file"
      <3>1. \A n \in Numbers : n # None
        BY ObjectsAre DEF None
      <3> QED
        BY <2>1, <3>1
    <2>7. \A n \in Numbers : open'[n] = "file" =>
             worker' = "reads" /\ \A m \in Numbers : open'[m] = "file" => m = n
      BY <1>1, <2>2, <2>6 DEF Owned
    <2> QED
      BY <2>3, <2>4, <2>5, <2>7 DEF Owned
  <1>6. CASE OpenFile
    <2>1. PICK k \in Numbers :
              /\ open[k] = "free" /\ open'[k] = "file"
              /\ \A n \in Numbers : open[n] # "file" /\ (n # k => open'[n] = open[n])
      BY <1>6, OpenFileFacts
    <2>2. worker' = "reads" /\ UNCHANGED <<alive, held>>
      BY <1>6, OpenFileFacts DEF mainVars
    <2>3. \A x \in Objects : held[x] # None => held[x] \in Numbers /\ open[held[x]] = x /\ held[x] # k
      BY <1>1, <1>2, <2>1 DEF Owned, LifeType
    <2> QED
      BY <1>1, <1>2, <2>1, <2>2, <2>3 DEF Owned
  <1>7. CASE CloseFile
    <2>1. UNCHANGED <<alive, held>> /\ \A n \in Numbers : open'[n] = IF open[n] = "file" THEN "free" ELSE open[n]
      BY <1>7, CloseFileFacts DEF mainVars
    <2>2. \A x \in Objects : held[x] # None => held[x] \in Numbers /\ open[held[x]] = x
      BY <1>1 DEF Owned, LifeType
    <2> QED
      BY <1>1, <1>2, <2>1, <2>2 DEF Owned
  <1> QED
    BY <1>3, <1>4, <1>5, <1>6, <1>7, FdCases

\* Objects exist where main is.
LEMMA ExistingStep ==
  ASSUME LifeInv, [Next]_vars
  PROVE  Existing'
  <1>0. LifeType /\ Existing /\ Working
    BY DEF LifeInv
  <1>1. CASE Configure
    BY <1>1, <1>0 DEF Configure, MainAt, LifeType, Existing, Working, Base, Early, Watching,
       Leaving, vars, mainVars, poolVars
  <1>2. CASE Listen("listen", "http", "pool")
    BY <1>2, <1>0 DEF Listen, MainAt, Construct, LifeType, Existing, Working, Base, Early,
       Watching, Leaving, vars, mainVars, poolVars
  <1>3. CASE StartPool
    BY <1>3, <1>0 DEF StartPool, MainAt, Construct, LifeType, Existing, Working, Base, Early,
       Watching, Leaving, vars, mainVars, poolVars
  <1>4. CASE PoolTerminates
    BY <1>4, <1>0 DEF PoolTerminates, MainAt, LifeType, Existing, Working, Base, Early,
       Watching, Leaving, vars, mainVars, poolVars
  <1>5. ASSUME NEW works \in BOOLEAN, StartCompletion(works) PROVE Existing'
    BY <1>5, <1>0 DEF StartCompletion, MainAt, Construct, LifeType, Existing, Working, Base,
       Early, Watching, Leaving, vars, mainVars, poolVars
  <1>6. CASE Listen("tls", "tls", "epoll")
    BY <1>6, <1>0 DEF Listen, MainAt, Construct, LifeType, Existing, Working, Base, Early,
       Watching, Leaving, vars, mainVars, poolVars
  <1>7. CASE StartEpoll
    BY <1>7, <1>0 DEF StartEpoll, MainAt, Construct, LifeType, Existing, Working, Base, Early,
       Watching, Leaving, vars, mainVars, poolVars
  <1>8. CASE StopListener("stopHttp", "http", "startHttp")
    BY <1>8, <1>0 DEF StopListener, MainAt, LifeType, Existing, Working, Base, Early, Watching,
       Leaving, vars, mainVars, poolVars
  <1>9. CASE Restart("startHttp", "http", "watchCompletion")
    BY <1>9, <1>0 DEF Restart, MainAt, LifeType, Existing, Working, Base, Early, Watching,
       Leaving, vars, mainVars, poolVars
  <1>10. ASSUME NEW works \in BOOLEAN, WatchCompletion(works) PROVE Existing'
    BY <1>10, <1>0 DEF WatchCompletion, MainAt, LifeType, Existing, Working, Base, Early,
       Watching, Leaving, vars, mainVars, poolVars
  <1>11. ASSUME NEW works \in BOOLEAN, StartReload(works) PROVE Existing'
    BY <1>11, <1>0 DEF StartReload, MainAt, Construct, LifeType, Existing, Working, Base,
       Early, Watching, Leaving, vars, mainVars, poolVars
  <1>12. CASE SetNotify
    BY <1>12, <1>0 DEF SetNotify, MainAt, LifeType, Existing, Working, Base, Early, Watching,
       Leaving, vars, mainVars, poolVars
  <1>13. ASSUME NEW works \in BOOLEAN, WatchReload(works) PROVE Existing'
    BY <1>13, <1>0 DEF WatchReload, MainAt, LifeType, Existing, Working, Base, Early, Watching,
       Leaving, vars, mainVars, poolVars
  <1>14. CASE WatchListener("watchHttp", "http", IF tls THEN "stopTls" ELSE "loop")
    BY <1>14, <1>0 DEF WatchListener, MainAt, LifeType, Existing, Working, Base, Early,
       Watching, Leaving, vars, mainVars, poolVars
  <1>15. CASE StopListener("stopTls", "tls", "startTls")
    BY <1>15, <1>0 DEF StopListener, MainAt, LifeType, Existing, Working, Base, Early,
       Watching, Leaving, vars, mainVars, poolVars
  <1>16. CASE Restart("startTls", "tls", "watchTls")
    BY <1>16, <1>0 DEF Restart, MainAt, LifeType, Existing, Working, Base, Early, Watching,
       Leaving, vars, mainVars, poolVars
  <1>17. CASE WatchListener("watchTls", "tls", "loop")
    BY <1>17, <1>0 DEF WatchListener, MainAt, LifeType, Existing, Working, Base, Early,
       Watching, Leaving, vars, mainVars, poolVars
  <1>18. ASSUME NEW p \in {"config", "listen", "pool", "tls", "epoll", "startHttp", "watchHttp", "startTls", "watchTls", "loop"}, GiveUp(p) PROVE Existing'
    BY <1>18, <1>0 DEF GiveUp, MainAt, LifeType, Existing, Working, Base, Early, Watching,
       Leaving, vars, mainVars, poolVars
  <1>19. CASE Submit
    BY <1>19, <1>0 DEF Submit, MainAt, LifeType, Existing, Working, Base, Early, Watching,
       Leaving, vars, mainVars, poolVars
  <1>20. CASE LeaveLoop
    BY <1>20, <1>0 DEF LeaveLoop, MainAt, LifeType, Existing, Working, Base, Early, Watching,
       Leaving, vars, mainVars, poolVars
  <1>21. CASE EndScope
    BY <1>21, <1>0 DEF EndScope, MainAt, Destroy, LifeType, Existing, Working, Base, Early,
       Watching, Leaving, vars, mainVars, poolVars
  <1>22. CASE StopListening
    BY <1>22, <1>0 DEF StopListening, StopListener, MainAt, LifeType, Existing, Working, Base,
       Early, Watching, Leaving, vars, mainVars, poolVars
  <1>23. CASE ShutdownPool
    BY <1>23, <1>0 DEF ShutdownPool, ShutdownQueue, Join, MainAt, LifeType, Existing, Working,
       Base, Early, Watching, Leaving, vars, mainVars, poolVars
  <1>24. CASE Unwind
    BY <1>24, <1>0, UnwindCases DEF Destroy, LifeType, Existing, Working, Base, Early,
       Watching, Leaving, vars, mainVars, poolVars
  <1>25. CASE TakeJob
    BY <1>25, <1>0 DEF TakeJob, WorkerStep, LifeType, Existing, Working, Base, Early, Watching,
       Leaving, vars, mainVars, poolVars
  <1>26. CASE OpenFile
    BY <1>26, <1>0 DEF OpenFile, WorkerStep, LifeType, Existing, Working, Base, Early,
       Watching, Leaving, vars, mainVars, poolVars
  <1>27. CASE CloseFile
    BY <1>27, <1>0 DEF CloseFile, WorkerStep, LifeType, Existing, Working, Base, Early,
       Watching, Leaving, vars, mainVars, poolVars
  <1>28. CASE Deliver
    BY <1>28, <1>0 DEF Deliver, WorkerStep, LifeType, Existing, Working, Base, Early, Watching,
       Leaving, vars, mainVars, poolVars
  <1>29. CASE WorkerExits
    BY <1>29, <1>0 DEF WorkerExits, LifeType, Existing, Working, Base, Early, Watching,
       Leaving, vars, mainVars, poolVars
  <1>30. CASE SigTerm
    BY <1>30, <1>0 DEF SigTerm, LifeType, Existing, Working, Base, Early, Watching, Leaving,
       vars, mainVars, poolVars
  <1>31. CASE SigHup
    BY <1>31, <1>0 DEF SigHup, LifeType, Existing, Working, Base, Early, Watching, Leaving,
       vars, mainVars, poolVars
  <1>32. CASE WriteWakeup
    BY <1>32, <1>0 DEF WriteWakeup, LifeType, Existing, Working, Base, Early, Watching,
       Leaving, vars, mainVars, poolVars
  <1>33. CASE UNCHANGED vars
    BY <1>33, <1>0 DEF LifeType, Existing, Working, Base, Early, Watching, Leaving, vars,
       mainVars, poolVars
  <1> QED
    BY <1>1, <1>2, <1>3, <1>4, <1>5, <1>6, <1>7, <1>8, <1>9, <1>10, <1>11, <1>12, <1>13, <1>14,
       <1>15, <1>16, <1>17, <1>18, <1>19, <1>20, <1>21, <1>22, <1>23, <1>24, <1>25, <1>26,
       <1>27, <1>28, <1>29, <1>30, <1>31, <1>32, <1>33 DEF Next, Startup, Shutdown, LoopThrows,
       WorkerThread, Ended

\* The pool, its jobs and the code main returns.
LEMMA WorkingStep ==
  ASSUME LifeInv, [Next]_vars
  PROVE  Working'
  <1>0. LifeType /\ Existing /\ Working
    BY DEF LifeInv
  <1>1. CASE Configure
    BY <1>1, <1>0 DEF Configure, MainAt, LifeType, Existing, Working, Base, Early, Watching,
       Leaving, vars, mainVars, poolVars
  <1>2. CASE Listen("listen", "http", "pool")
    BY <1>2, <1>0 DEF Listen, MainAt, Construct, LifeType, Existing, Working, Base, Early,
       Watching, Leaving, vars, mainVars, poolVars
  <1>3. CASE StartPool
    BY <1>3, <1>0 DEF StartPool, MainAt, Construct, LifeType, Existing, Working, Base, Early,
       Watching, Leaving, vars, mainVars, poolVars
  <1>4. CASE PoolTerminates
    BY <1>4, <1>0 DEF PoolTerminates, MainAt, LifeType, Existing, Working, Base, Early,
       Watching, Leaving, vars, mainVars, poolVars
  <1>5. ASSUME NEW works \in BOOLEAN, StartCompletion(works) PROVE Working'
    BY <1>5, <1>0 DEF StartCompletion, MainAt, Construct, LifeType, Existing, Working, Base,
       Early, Watching, Leaving, vars, mainVars, poolVars
  <1>6. CASE Listen("tls", "tls", "epoll")
    BY <1>6, <1>0 DEF Listen, MainAt, Construct, LifeType, Existing, Working, Base, Early,
       Watching, Leaving, vars, mainVars, poolVars
  <1>7. CASE StartEpoll
    BY <1>7, <1>0 DEF StartEpoll, MainAt, Construct, LifeType, Existing, Working, Base, Early,
       Watching, Leaving, vars, mainVars, poolVars
  <1>8. CASE StopListener("stopHttp", "http", "startHttp")
    BY <1>8, <1>0 DEF StopListener, MainAt, LifeType, Existing, Working, Base, Early, Watching,
       Leaving, vars, mainVars, poolVars
  <1>9. CASE Restart("startHttp", "http", "watchCompletion")
    BY <1>9, <1>0 DEF Restart, MainAt, LifeType, Existing, Working, Base, Early, Watching,
       Leaving, vars, mainVars, poolVars
  <1>10. ASSUME NEW works \in BOOLEAN, WatchCompletion(works) PROVE Working'
    BY <1>10, <1>0 DEF WatchCompletion, MainAt, LifeType, Existing, Working, Base, Early,
       Watching, Leaving, vars, mainVars, poolVars
  <1>11. ASSUME NEW works \in BOOLEAN, StartReload(works) PROVE Working'
    BY <1>11, <1>0 DEF StartReload, MainAt, Construct, LifeType, Existing, Working, Base,
       Early, Watching, Leaving, vars, mainVars, poolVars
  <1>12. CASE SetNotify
    BY <1>12, <1>0 DEF SetNotify, MainAt, LifeType, Existing, Working, Base, Early, Watching,
       Leaving, vars, mainVars, poolVars
  <1>13. ASSUME NEW works \in BOOLEAN, WatchReload(works) PROVE Working'
    BY <1>13, <1>0 DEF WatchReload, MainAt, LifeType, Existing, Working, Base, Early, Watching,
       Leaving, vars, mainVars, poolVars
  <1>14. CASE WatchListener("watchHttp", "http", IF tls THEN "stopTls" ELSE "loop")
    BY <1>14, <1>0 DEF WatchListener, MainAt, LifeType, Existing, Working, Base, Early,
       Watching, Leaving, vars, mainVars, poolVars
  <1>15. CASE StopListener("stopTls", "tls", "startTls")
    BY <1>15, <1>0 DEF StopListener, MainAt, LifeType, Existing, Working, Base, Early,
       Watching, Leaving, vars, mainVars, poolVars
  <1>16. CASE Restart("startTls", "tls", "watchTls")
    BY <1>16, <1>0 DEF Restart, MainAt, LifeType, Existing, Working, Base, Early, Watching,
       Leaving, vars, mainVars, poolVars
  <1>17. CASE WatchListener("watchTls", "tls", "loop")
    BY <1>17, <1>0 DEF WatchListener, MainAt, LifeType, Existing, Working, Base, Early,
       Watching, Leaving, vars, mainVars, poolVars
  <1>18. ASSUME NEW p \in {"config", "listen", "pool", "tls", "epoll", "startHttp", "watchHttp", "startTls", "watchTls", "loop"}, GiveUp(p) PROVE Working'
    BY <1>18, <1>0 DEF GiveUp, MainAt, LifeType, Existing, Working, Base, Early, Watching,
       Leaving, vars, mainVars, poolVars
  <1>19. CASE Submit
    BY <1>19, <1>0 DEF Submit, MainAt, LifeType, Existing, Working, Base, Early, Watching,
       Leaving, vars, mainVars, poolVars
  <1>20. CASE LeaveLoop
    BY <1>20, <1>0 DEF LeaveLoop, MainAt, LifeType, Existing, Working, Base, Early, Watching,
       Leaving, vars, mainVars, poolVars
  <1>21. CASE EndScope
    BY <1>21, <1>0 DEF EndScope, MainAt, Destroy, LifeType, Existing, Working, Base, Early,
       Watching, Leaving, vars, mainVars, poolVars
  <1>22. CASE StopListening
    BY <1>22, <1>0 DEF StopListening, StopListener, MainAt, LifeType, Existing, Working, Base,
       Early, Watching, Leaving, vars, mainVars, poolVars
  <1>23. CASE ShutdownPool
    BY <1>23, <1>0 DEF ShutdownPool, ShutdownQueue, Join, MainAt, LifeType, Existing, Working,
       Base, Early, Watching, Leaving, vars, mainVars, poolVars
  <1>24. CASE Unwind
    BY <1>24, <1>0, UnwindCases DEF Destroy, LifeType, Existing, Working, Base, Early,
       Watching, Leaving, vars, mainVars, poolVars
  <1>25. CASE TakeJob
    BY <1>25, <1>0 DEF TakeJob, WorkerStep, LifeType, Existing, Working, Base, Early, Watching,
       Leaving, vars, mainVars, poolVars
  <1>26. CASE OpenFile
    BY <1>26, <1>0 DEF OpenFile, WorkerStep, LifeType, Existing, Working, Base, Early,
       Watching, Leaving, vars, mainVars, poolVars
  <1>27. CASE CloseFile
    BY <1>27, <1>0 DEF CloseFile, WorkerStep, LifeType, Existing, Working, Base, Early,
       Watching, Leaving, vars, mainVars, poolVars
  <1>28. CASE Deliver
    BY <1>28, <1>0 DEF Deliver, WorkerStep, LifeType, Existing, Working, Base, Early, Watching,
       Leaving, vars, mainVars, poolVars
  <1>29. CASE WorkerExits
    BY <1>29, <1>0 DEF WorkerExits, LifeType, Existing, Working, Base, Early, Watching,
       Leaving, vars, mainVars, poolVars
  <1>30. CASE SigTerm
    BY <1>30, <1>0 DEF SigTerm, LifeType, Existing, Working, Base, Early, Watching, Leaving,
       vars, mainVars, poolVars
  <1>31. CASE SigHup
    BY <1>31, <1>0 DEF SigHup, LifeType, Existing, Working, Base, Early, Watching, Leaving,
       vars, mainVars, poolVars
  <1>32. CASE WriteWakeup
    BY <1>32, <1>0 DEF WriteWakeup, LifeType, Existing, Working, Base, Early, Watching,
       Leaving, vars, mainVars, poolVars
  <1>33. CASE UNCHANGED vars
    BY <1>33, <1>0 DEF LifeType, Existing, Working, Base, Early, Watching, Leaving, vars,
       mainVars, poolVars
  <1> QED
    BY <1>1, <1>2, <1>3, <1>4, <1>5, <1>6, <1>7, <1>8, <1>9, <1>10, <1>11, <1>12, <1>13, <1>14,
       <1>15, <1>16, <1>17, <1>18, <1>19, <1>20, <1>21, <1>22, <1>23, <1>24, <1>25, <1>26,
       <1>27, <1>28, <1>29, <1>30, <1>31, <1>32, <1>33 DEF Next, Startup, Shutdown, LoopThrows,
       WorkerThread, Ended

LEMMA FdType ==
  ASSUME LifeInv, [Next]_vars
  PROVE  /\ open' \in [Numbers -> Objects \cup {"file", "free"}]
         /\ held' \in [Objects -> Numbers \cup {None}]
  <1>1. LifeType /\ Owned
    BY DEF LifeInv
  <1>2. CASE Same
    BY <1>1, <1>2 DEF Same, LifeType
  <1>3. \A o : Takes(o) => /\ open' \in [Numbers -> Objects \cup {"file", "free"}]
                           /\ held' \in [Objects -> Numbers \cup {None}]
    BY <1>1, TakesFacts
  <1>4. \A o : Gives(o) => /\ open' \in [Numbers -> Objects \cup {"file", "free"}]
                           /\ held' \in [Objects -> Numbers \cup {None}]
    BY <1>1, GivesFacts
  <1>5. CASE OpenFile
    BY <1>1, <1>5, OpenFileFacts DEF LifeType
  <1>6. CASE CloseFile
    BY <1>1, <1>6, CloseFileFacts DEF LifeType
  <1> QED
    BY <1>2, <1>3, <1>4, <1>5, <1>6, FdCases

\* Closing a descriptor keeps epoll's table typed.
LEMMA ResetTyped ==
  ASSUME LifeType, NEW o \in Objects, Reset(o)
  PROVE  watch' \in [Numbers -> Objects \cup {"none"}]
  BY DEF LifeType, Reset, Unwatched

LEMMA LifeTypeStep ==
  ASSUME LifeInv, [Next]_vars
  PROVE  LifeType'
  <1>a. LifeType
    BY DEF LifeInv
  <1>b. /\ open' \in [Numbers -> Objects \cup {"file", "free"}]
        /\ held' \in [Objects -> Numbers \cup {None}]
    BY FdType
  <1>1. CASE Configure
    BY <1>1, <1>a, <1>b, ObjectsAre DEF Configure, MainAt, LifeType, Early, Watching, Leaving,
       Places, vars, mainVars, signalVars, poolVars
  <1>2. CASE Listen("listen", "http", "pool")
    BY <1>2, <1>a, <1>b, ObjectsAre DEF Listen, MainAt, Construct, LifeType, Early, Watching,
       Leaving, Places, vars, mainVars, signalVars, poolVars
  <1>3. CASE StartPool
    BY <1>3, <1>a, <1>b, ObjectsAre DEF StartPool, MainAt, Construct, LifeType, Early,
       Watching, Leaving, Places, vars, mainVars, signalVars, poolVars
  <1>4. CASE PoolTerminates
    BY <1>4, <1>a, <1>b, ObjectsAre DEF PoolTerminates, MainAt, LifeType, Early, Watching,
       Leaving, Places, vars, mainVars, signalVars, poolVars
  <1>5. ASSUME NEW works \in BOOLEAN, StartCompletion(works) PROVE LifeType'
    BY <1>5, <1>a, <1>b, ObjectsAre DEF StartCompletion, MainAt, Construct, LifeType, Early,
       Watching, Leaving, Places, vars, mainVars, signalVars, poolVars
  <1>6. CASE Listen("tls", "tls", "epoll")
    BY <1>6, <1>a, <1>b, ObjectsAre DEF Listen, MainAt, Construct, LifeType, Early, Watching,
       Leaving, Places, vars, mainVars, signalVars, poolVars
  <1>7. CASE StartEpoll
    BY <1>7, <1>a, <1>b, ObjectsAre DEF StartEpoll, MainAt, Construct, LifeType, Early,
       Watching, Leaving, Places, vars, mainVars, signalVars, poolVars
  <1>8. CASE StopListener("stopHttp", "http", "startHttp")
    BY <1>8, <1>a, <1>b, ObjectsAre, ResetTyped DEF StopListener, MainAt, LifeType, Early,
       Watching, Leaving, Places, vars, mainVars, signalVars, poolVars
  <1>9. CASE Restart("startHttp", "http", "watchCompletion")
    BY <1>9, <1>a, <1>b, ObjectsAre DEF Restart, MainAt, LifeType, Early, Watching, Leaving,
       Places, vars, mainVars, signalVars, poolVars
  <1>10. ASSUME NEW works \in BOOLEAN, WatchCompletion(works) PROVE LifeType'
    BY <1>10, <1>a, <1>b, ObjectsAre DEF WatchCompletion, MainAt, LifeType, Early, Watching,
       Leaving, Places, vars, mainVars, signalVars, poolVars
  <1>11. ASSUME NEW works \in BOOLEAN, StartReload(works) PROVE LifeType'
    BY <1>11, <1>a, <1>b, ObjectsAre DEF StartReload, MainAt, Construct, LifeType, Early,
       Watching, Leaving, Places, vars, mainVars, signalVars, poolVars
  <1>12. CASE SetNotify
    BY <1>12, <1>a, <1>b, ObjectsAre DEF SetNotify, MainAt, LifeType, Early, Watching, Leaving,
       Places, vars, mainVars, signalVars, poolVars
  <1>13. ASSUME NEW works \in BOOLEAN, WatchReload(works) PROVE LifeType'
    BY <1>13, <1>a, <1>b, ObjectsAre DEF WatchReload, MainAt, LifeType, Early, Watching,
       Leaving, Places, vars, mainVars, signalVars, poolVars
  <1>14. CASE WatchListener("watchHttp", "http", IF tls THEN "stopTls" ELSE "loop")
    BY <1>14, <1>a, <1>b, ObjectsAre DEF WatchListener, MainAt, LifeType, Early, Watching,
       Leaving, Places, vars, mainVars, signalVars, poolVars
  <1>15. CASE StopListener("stopTls", "tls", "startTls")
    BY <1>15, <1>a, <1>b, ObjectsAre, ResetTyped DEF StopListener, MainAt, LifeType, Early,
       Watching, Leaving, Places, vars, mainVars, signalVars, poolVars
  <1>16. CASE Restart("startTls", "tls", "watchTls")
    BY <1>16, <1>a, <1>b, ObjectsAre DEF Restart, MainAt, LifeType, Early, Watching, Leaving,
       Places, vars, mainVars, signalVars, poolVars
  <1>17. CASE WatchListener("watchTls", "tls", "loop")
    BY <1>17, <1>a, <1>b, ObjectsAre DEF WatchListener, MainAt, LifeType, Early, Watching,
       Leaving, Places, vars, mainVars, signalVars, poolVars
  <1>18. ASSUME NEW p \in {"config", "listen", "pool", "tls", "epoll", "startHttp", "watchHttp", "startTls", "watchTls", "loop"}, GiveUp(p) PROVE LifeType'
    BY <1>18, <1>a, <1>b, ObjectsAre DEF GiveUp, MainAt, LifeType, Early, Watching, Leaving,
       Places, vars, mainVars, signalVars, poolVars
  <1>19. CASE Submit
    BY <1>19, <1>a, <1>b, ObjectsAre DEF Submit, MainAt, LifeType, Early, Watching, Leaving,
       Places, vars, mainVars, signalVars, poolVars
  <1>20. CASE LeaveLoop
    BY <1>20, <1>a, <1>b, ObjectsAre DEF LeaveLoop, MainAt, LifeType, Early, Watching, Leaving,
       Places, vars, mainVars, signalVars, poolVars
  <1>21. CASE EndScope
    BY <1>21, <1>a, <1>b, ObjectsAre, ResetTyped DEF EndScope, MainAt, Destroy, LifeType,
       Early, Watching, Leaving, Places, vars, mainVars, signalVars, poolVars
  <1>22. CASE StopListening
    BY <1>22, <1>a, <1>b, ObjectsAre, ResetTyped DEF StopListening, StopListener, MainAt,
       LifeType, Early, Watching, Leaving, Places, vars, mainVars, signalVars, poolVars
  <1>23. CASE ShutdownPool
    BY <1>23, <1>a, <1>b, ObjectsAre DEF ShutdownPool, ShutdownQueue, Join, MainAt, LifeType,
       Early, Watching, Leaving, Places, vars, mainVars, signalVars, poolVars
  <1>24. CASE Unwind
    BY <1>24, <1>a, <1>b, ObjectsAre, ResetTyped, UnwindCases DEF Destroy, fdVars, LifeType,
       Early, Watching, Leaving, Places, vars, mainVars, signalVars, poolVars
  <1>25. CASE TakeJob
    BY <1>25, <1>a, <1>b, ObjectsAre DEF TakeJob, WorkerStep, LifeType, Early, Watching,
       Leaving, Places, vars, mainVars, signalVars, poolVars
  <1>26. CASE OpenFile
    BY <1>26, <1>a, <1>b, ObjectsAre DEF OpenFile, WorkerStep, LifeType, Early, Watching,
       Leaving, Places, vars, mainVars, signalVars, poolVars
  <1>27. CASE CloseFile
    BY <1>27, <1>a, <1>b, ObjectsAre DEF CloseFile, WorkerStep, LifeType, Early, Watching,
       Leaving, Places, vars, mainVars, signalVars, poolVars
  <1>28. CASE Deliver
    BY <1>28, <1>a, <1>b, ObjectsAre DEF Deliver, WorkerStep, LifeType, Early, Watching,
       Leaving, Places, vars, mainVars, signalVars, poolVars
  <1>29. CASE WorkerExits
    BY <1>29, <1>a, <1>b, ObjectsAre DEF WorkerExits, LifeType, Early, Watching, Leaving,
       Places, vars, mainVars, signalVars, poolVars
  <1>30. CASE SigTerm
    BY <1>30, <1>a, <1>b, ObjectsAre DEF SigTerm, LifeType, Early, Watching, Leaving, Places,
       vars, mainVars, signalVars, poolVars
  <1>31. CASE SigHup
    BY <1>31, <1>a, <1>b, ObjectsAre DEF SigHup, LifeType, Early, Watching, Leaving, Places,
       vars, mainVars, signalVars, poolVars
  <1>32. CASE WriteWakeup
    BY <1>32, <1>a, <1>b, ObjectsAre DEF WriteWakeup, LifeType, Early, Watching, Leaving,
       Places, vars, mainVars, signalVars, poolVars
  <1>33. CASE UNCHANGED vars
    BY <1>33, <1>a, <1>b, ObjectsAre DEF LifeType, Early, Watching, Leaving, Places, vars,
       mainVars, signalVars, poolVars
  <1> QED
    BY <1>1, <1>2, <1>3, <1>4, <1>5, <1>6, <1>7, <1>8, <1>9, <1>10, <1>11, <1>12, <1>13, <1>14,
       <1>15, <1>16, <1>17, <1>18, <1>19, <1>20, <1>21, <1>22, <1>23, <1>24, <1>25, <1>26,
       <1>27, <1>28, <1>29, <1>30, <1>31, <1>32, <1>33 DEF Next, Startup, Shutdown, LoopThrows,
       WorkerThread, Ended

-----------------------------------------------------------------------------
(* Wake-ups *)

\* main never goes back before the announcement of the eventfd, and what the
\* signal handler holds comes from there.
LEMMA Announcement ==
  ASSUME LifeInv, [Next]_vars
  PROVE  /\ pc \notin Early \cup {"aborted"} => pc' \notin Early \cup {"aborted"}
         /\ pc \notin Early /\ pc' \in Watching => pc \in Watching
         /\ SetNotify \/ notify' \in {notify, None}
         /\ hup' \in {hup, notify, None}
  <1> DEFINE Goal == /\ pc \notin Early \cup {"aborted"} => pc' \notin Early \cup {"aborted"}
                     /\ pc \notin Early /\ pc' \in Watching => pc \in Watching
                     /\ SetNotify \/ notify' \in {notify, None}
                     /\ hup' \in {hup, notify, None}
  <1> SUFFICES Goal
    OBVIOUS
  <1>a. alive \in SUBSET Objects
    BY DEF LifeInv, LifeType
  <1>1. CASE Configure
    BY <1>1 DEF Configure, MainAt, Early, Watching, Leaving, vars, mainVars, signalVars
  <1>2. CASE Listen("listen", "http", "pool")
    BY <1>2 DEF Listen, MainAt, Construct, Early, Watching, Leaving, vars, mainVars, signalVars
  <1>3. CASE StartPool
    BY <1>3 DEF StartPool, MainAt, Construct, Early, Watching, Leaving, vars, mainVars,
       signalVars
  <1>4. CASE PoolTerminates
    BY <1>4 DEF PoolTerminates, MainAt, Early, Watching, Leaving, vars, mainVars, signalVars
  <1>5. ASSUME NEW works \in BOOLEAN, StartCompletion(works) PROVE Goal
    BY <1>5 DEF StartCompletion, MainAt, Construct, Early, Watching, Leaving, vars, mainVars,
       signalVars
  <1>6. CASE Listen("tls", "tls", "epoll")
    BY <1>6 DEF Listen, MainAt, Construct, Early, Watching, Leaving, vars, mainVars, signalVars
  <1>7. CASE StartEpoll
    BY <1>7 DEF StartEpoll, MainAt, Construct, Early, Watching, Leaving, vars, mainVars,
       signalVars
  <1>8. CASE StopListener("stopHttp", "http", "startHttp")
    BY <1>8 DEF StopListener, MainAt, Early, Watching, Leaving, vars, mainVars, signalVars
  <1>9. CASE Restart("startHttp", "http", "watchCompletion")
    BY <1>9 DEF Restart, MainAt, Early, Watching, Leaving, vars, mainVars, signalVars
  <1>10. ASSUME NEW works \in BOOLEAN, WatchCompletion(works) PROVE Goal
    BY <1>10 DEF WatchCompletion, MainAt, Early, Watching, Leaving, vars, mainVars, signalVars
  <1>11. ASSUME NEW works \in BOOLEAN, StartReload(works) PROVE Goal
    BY <1>11 DEF StartReload, MainAt, Construct, Early, Watching, Leaving, vars, mainVars,
       signalVars
  <1>12. CASE SetNotify
    BY <1>12 DEF SetNotify, MainAt, Early, Watching, Leaving, vars, mainVars, signalVars
  <1>13. ASSUME NEW works \in BOOLEAN, WatchReload(works) PROVE Goal
    BY <1>13 DEF WatchReload, MainAt, Early, Watching, Leaving, vars, mainVars, signalVars
  <1>14. CASE WatchListener("watchHttp", "http", IF tls THEN "stopTls" ELSE "loop")
    BY <1>14 DEF WatchListener, MainAt, Early, Watching, Leaving, vars, mainVars, signalVars
  <1>15. CASE StopListener("stopTls", "tls", "startTls")
    BY <1>15 DEF StopListener, MainAt, Early, Watching, Leaving, vars, mainVars, signalVars
  <1>16. CASE Restart("startTls", "tls", "watchTls")
    BY <1>16 DEF Restart, MainAt, Early, Watching, Leaving, vars, mainVars, signalVars
  <1>17. CASE WatchListener("watchTls", "tls", "loop")
    BY <1>17 DEF WatchListener, MainAt, Early, Watching, Leaving, vars, mainVars, signalVars
  <1>18. ASSUME NEW p \in {"config", "listen", "pool", "tls", "epoll", "startHttp", "watchHttp", "startTls", "watchTls", "loop"}, GiveUp(p) PROVE Goal
    BY <1>18 DEF GiveUp, MainAt, Early, Watching, Leaving, vars, mainVars, signalVars
  <1>19. CASE Submit
    BY <1>19 DEF Submit, MainAt, Early, Watching, Leaving, vars, mainVars, signalVars
  <1>20. CASE LeaveLoop
    BY <1>20 DEF LeaveLoop, MainAt, Early, Watching, Leaving, vars, mainVars, signalVars
  <1>21. CASE EndScope
    BY <1>21 DEF EndScope, MainAt, Early, Watching, Leaving, vars, mainVars, signalVars
  <1>22. CASE StopListening
    BY <1>22 DEF StopListening, StopListener, MainAt, Early, Watching, Leaving, vars, mainVars,
       signalVars
  <1>23. CASE ShutdownPool
    BY <1>23 DEF ShutdownPool, ShutdownQueue, Join, MainAt, Early, Watching, Leaving, vars,
       mainVars, signalVars
  <1>24. CASE Unwind
    BY <1>24, <1>a, UnwindCases DEF Early, Watching, Leaving, vars, mainVars, signalVars
  <1>25. CASE TakeJob
    BY <1>25 DEF TakeJob, WorkerStep, Early, Watching, Leaving, vars, mainVars, signalVars
  <1>26. CASE OpenFile
    BY <1>26 DEF OpenFile, WorkerStep, Early, Watching, Leaving, vars, mainVars, signalVars
  <1>27. CASE CloseFile
    BY <1>27 DEF CloseFile, WorkerStep, Early, Watching, Leaving, vars, mainVars, signalVars
  <1>28. CASE Deliver
    BY <1>28 DEF Deliver, WorkerStep, Early, Watching, Leaving, vars, mainVars, signalVars
  <1>29. CASE WorkerExits
    BY <1>29 DEF WorkerExits, Early, Watching, Leaving, vars, mainVars, signalVars
  <1>30. CASE SigTerm
    BY <1>30 DEF SigTerm, Early, Watching, Leaving, vars, mainVars, signalVars
  <1>31. CASE SigHup
    BY <1>31 DEF SigHup, Early, Watching, Leaving, vars, mainVars, signalVars
  <1>32. CASE WriteWakeup
    BY <1>32 DEF WriteWakeup, Early, Watching, Leaving, vars, mainVars, signalVars
  <1>33. CASE UNCHANGED vars
    BY <1>33 DEF Early, Watching, Leaving, vars, mainVars, signalVars
  <1> QED
    BY <1>1, <1>2, <1>3, <1>4, <1>5, <1>6, <1>7, <1>8, <1>9, <1>10, <1>11, <1>12, <1>13, <1>14,
       <1>15, <1>16, <1>17, <1>18, <1>19, <1>20, <1>21, <1>22, <1>23, <1>24, <1>25, <1>26,
       <1>27, <1>28, <1>29, <1>30, <1>31, <1>32, <1>33 DEF Next, Startup, Shutdown, LoopThrows,
       WorkerThread, Ended

\* The number that was announced does not come to mean something else.
LEMMA NumberKept ==
  ASSUME LifeInv, [Next]_vars, NEW w \in Numbers, Notifies(w)
  PROVE  Notifies(w)'
  <1>1. LifeType /\ Owned /\ w # None
    BY ObjectsAre DEF LifeInv, None
  <1>2. /\ pc \notin Early \cup {"aborted"}
        /\ pc \in Watching => open[w] = "reload"
        /\ open[w] \in {"reload", "free", "file"}
    BY <1>1 DEF Notifies
  <1>3. pc' \notin Early \cup {"aborted"} /\ (pc' \in Watching => pc \in Watching)
    BY <1>2, Announcement
  <1>4. SUFFICES /\ pc' \in Watching => open'[w] = "reload"
                 /\ open'[w] \in {"reload", "free", "file"}
    BY <1>3 DEF Notifies
  <1>5. CASE Same
    BY <1>2, <1>3, <1>5 DEF Same
  <1>6. ASSUME NEW o, Takes(o)
        PROVE  (pc' \in Watching => open'[w] = "reload") /\ open'[w] \in {"reload", "free", "file"}
    <2>1. open[w] = "reload"
      BY <1>2, <1>6 DEF Takes
    <2>2. open'[w] = open[w]
      BY <1>1, <1>6, <2>1, TakesFacts
    <2> QED
      BY <2>1, <2>2
  <1>7. ASSUME NEW o, Gives(o)
        PROVE  (pc' \in Watching => open'[w] = "reload") /\ open'[w] \in {"reload", "free", "file"}
    <2>1. /\ held[o] # None => open'[held[o]] = "free"
          /\ \A n \in Numbers : n # held[o] => open'[n] = open[n]
      BY <1>1, <1>7, GivesFacts
    <2>2. CASE w = held[o]
      <3>1. open[w] = o
        BY <1>1, <1>7, <2>2 DEF Owned, Gives
      <3> QED
        BY <1>1, <1>2, <1>3, <1>7, <2>1, <2>2, <3>1 DEF Gives
    <2>3. CASE w # held[o]
      BY <1>2, <1>3, <2>1, <2>3
    <2> QED
      BY <2>2, <2>3
  <1>8. CASE OpenFile
    <2>1. PICK k \in Numbers :
              /\ open[k] = "free" /\ open'[k] = "file"
              /\ \A n \in Numbers : n # k => open'[n] = open[n]
      BY <1>8, OpenFileFacts
    <2> QED
      BY <1>2, <1>3, <2>1
  <1>9. CASE CloseFile
    <2>1. open'[w] = IF open[w] = "file" THEN "free" ELSE open[w]
      BY <1>9, CloseFileFacts
    <2> QED
      BY <1>2, <1>3, <2>1
  <1> QED
    BY <1>5, <1>6, <1>7, <1>8, <1>9, FdCases

\* The numbers that main and the signal handler have.
LEMMA NumbersKept ==
  ASSUME LifeInv, [Next]_vars
  PROVE  Notifies(notify)' /\ Notifies(hup)'
  <1>1. Notifies(notify) /\ Notifies(hup) /\ notify \in Numbers \cup {None} /\ hup \in Numbers \cup {None}
    BY DEF LifeInv, LifeType, Notified
  <1>2. ASSUME NEW w \in Numbers \cup {None}, Notifies(w) PROVE Notifies(w)'
    <2>1. CASE w = None
      BY <2>1 DEF Notifies
    <2>2. CASE w \in Numbers
      BY <1>2, <2>2, NumberKept
    <2> QED
      BY <2>1, <2>2
  <1>3. PICK v : v = notify
    OBVIOUS
  <1>4. PICK h : h = hup
    OBVIOUS
  <1>5. Notifies(v)' /\ Notifies(h)' /\ Notifies(None)'
    BY <1>1, <1>2, <1>3, <1>4 DEF Notifies
  <1>6. Notifies(hup)'
    BY <1>3, <1>4, <1>5, Announcement DEF Notifies
  <1>7. CASE notify' \in {notify, None}
    BY <1>3, <1>5, <1>6, <1>7 DEF Notifies
  <1>8. CASE SetNotify
    <2>1. /\ pc = "notify" /\ pc' = "watchReload" /\ notify' = held["reload"] /\ open' = open
      BY <1>8 DEF SetNotify, MainAt, fdVars
    <2>2. open[held["reload"]] = "reload"
      BY <2>1, ObjectsAre DEF LifeInv, Notified, Owned
    <2> QED
      BY <1>6, <2>1, <2>2 DEF Notifies, Early, Watching
  <1> QED
    BY <1>6, <1>7, <1>8, Announcement

\* The eventfd exists while it is announced.
LEMMA ReloadHeld ==
  ASSUME LifeInv, [Next]_vars, pc' \in {"notify", "watchReload"}
  PROVE  held'["reload"] # None
  <1> DEFINE Goal == held'["reload"] # None
  <1> SUFFICES Goal
    OBVIOUS
  <1>a. alive \in SUBSET Objects /\ LifeType /\ Owned
    BY DEF LifeInv, LifeType
  <1>b. pc \in {"notify", "watchReload"} => held["reload"] # None
    BY DEF LifeInv, Notified
  <1>1. CASE Configure
    BY <1>1, <1>b DEF Configure, MainAt, vars, mainVars, fdVars
  <1>2. CASE Listen("listen", "http", "pool")
    BY <1>2, <1>b DEF Listen, MainAt, Construct, vars, mainVars, fdVars
  <1>3. CASE StartPool
    BY <1>3, <1>b DEF StartPool, MainAt, Construct, vars, mainVars, fdVars
  <1>4. CASE PoolTerminates
    BY <1>4, <1>b DEF PoolTerminates, MainAt, vars, mainVars, fdVars
  <1>5. ASSUME NEW works \in BOOLEAN, StartCompletion(works) PROVE Goal
    BY <1>5, <1>b DEF StartCompletion, MainAt, Construct, vars, mainVars, fdVars
  <1>6. CASE Listen("tls", "tls", "epoll")
    BY <1>6, <1>b DEF Listen, MainAt, Construct, vars, mainVars, fdVars
  <1>7. CASE StartEpoll
    BY <1>7, <1>b DEF StartEpoll, MainAt, Construct, vars, mainVars, fdVars
  <1>8. CASE StopListener("stopHttp", "http", "startHttp")
    BY <1>8, <1>b DEF StopListener, MainAt, vars, mainVars, fdVars
  <1>9. CASE Restart("startHttp", "http", "watchCompletion")
    BY <1>9, <1>b DEF Restart, MainAt, vars, mainVars, fdVars
  <1>10. ASSUME NEW works \in BOOLEAN, WatchCompletion(works) PROVE Goal
    BY <1>10, <1>b DEF WatchCompletion, MainAt, vars, mainVars, fdVars
  <1>11. ASSUME NEW works \in BOOLEAN, StartReload(works) PROVE Goal
    <2>1. works
      BY <1>11 DEF StartReload
    <2>2. Takes("reload")
      BY <1>11, <2>1, FdActions
    <2> QED
      BY <1>a, <2>2, TakesFacts
  <1>12. CASE SetNotify
    BY <1>12, <1>b DEF SetNotify, MainAt, vars, mainVars, fdVars
  <1>13. ASSUME NEW works \in BOOLEAN, WatchReload(works) PROVE Goal
    BY <1>13, <1>b DEF WatchReload, MainAt, vars, mainVars, fdVars
  <1>14. CASE WatchListener("watchHttp", "http", IF tls THEN "stopTls" ELSE "loop")
    BY <1>14, <1>b DEF WatchListener, MainAt, vars, mainVars, fdVars
  <1>15. CASE StopListener("stopTls", "tls", "startTls")
    BY <1>15, <1>b DEF StopListener, MainAt, vars, mainVars, fdVars
  <1>16. CASE Restart("startTls", "tls", "watchTls")
    BY <1>16, <1>b DEF Restart, MainAt, vars, mainVars, fdVars
  <1>17. CASE WatchListener("watchTls", "tls", "loop")
    BY <1>17, <1>b DEF WatchListener, MainAt, vars, mainVars, fdVars
  <1>18. ASSUME NEW p \in {"config", "listen", "pool", "tls", "epoll", "startHttp", "watchHttp", "startTls", "watchTls", "loop"}, GiveUp(p) PROVE Goal
    BY <1>18, <1>b DEF GiveUp, MainAt, vars, mainVars, fdVars
  <1>19. CASE Submit
    BY <1>19, <1>b DEF Submit, MainAt, vars, mainVars, fdVars
  <1>20. CASE LeaveLoop
    BY <1>20, <1>b DEF LeaveLoop, MainAt, vars, mainVars, fdVars
  <1>21. CASE EndScope
    BY <1>21, <1>b DEF EndScope, MainAt, vars, mainVars, fdVars
  <1>22. CASE StopListening
    BY <1>22, <1>b DEF StopListening, StopListener, MainAt, vars, mainVars, fdVars
  <1>23. CASE ShutdownPool
    BY <1>23, <1>b DEF ShutdownPool, ShutdownQueue, Join, MainAt, vars, mainVars, fdVars
  <1>24. CASE Unwind
    BY <1>24, <1>b, <1>a, UnwindCases DEF vars, mainVars, fdVars
  <1>25. CASE TakeJob
    BY <1>25, <1>b DEF TakeJob, WorkerStep, vars, mainVars, fdVars
  <1>26. CASE OpenFile
    BY <1>26, <1>b DEF OpenFile, WorkerStep, vars, mainVars, fdVars
  <1>27. CASE CloseFile
    BY <1>27, <1>b DEF CloseFile, WorkerStep, vars, mainVars, fdVars
  <1>28. CASE Deliver
    BY <1>28, <1>b DEF Deliver, WorkerStep, vars, mainVars, fdVars
  <1>29. CASE WorkerExits
    BY <1>29, <1>b DEF WorkerExits, vars, mainVars, fdVars
  <1>30. CASE SigTerm
    BY <1>30, <1>b DEF SigTerm, vars, mainVars, fdVars
  <1>31. CASE SigHup
    BY <1>31, <1>b DEF SigHup, vars, mainVars, fdVars
  <1>32. CASE WriteWakeup
    BY <1>32, <1>b DEF WriteWakeup, vars, mainVars, fdVars
  <1>33. CASE UNCHANGED vars
    BY <1>33, <1>b DEF vars, mainVars, fdVars
  <1> QED
    BY <1>1, <1>2, <1>3, <1>4, <1>5, <1>6, <1>7, <1>8, <1>9, <1>10, <1>11, <1>12, <1>13, <1>14,
       <1>15, <1>16, <1>17, <1>18, <1>19, <1>20, <1>21, <1>22, <1>23, <1>24, <1>25, <1>26,
       <1>27, <1>28, <1>29, <1>30, <1>31, <1>32, <1>33 DEF Next, Startup, Shutdown, LoopThrows,
       WorkerThread, Ended

\* While main is on its way to the loop and in it, epoll watches the number.
LEMMA NotifyWatched ==
  ASSUME LifeInv, [Next]_vars, pc' \in Watching \ {"watchReload"}, notify' # None
  PROVE  watch'[notify'] = "reload"
  <1> DEFINE Goal == watch'[notify'] = "reload"
  <1> SUFFICES Goal
    OBVIOUS
  <1>a. LifeType /\ Owned /\ alive \in SUBSET Objects
    BY DEF LifeInv, LifeType
  <1>b. /\ pc \in Watching \ {"watchReload"} /\ notify # None => watch[notify] = "reload"
        /\ pc \in Early \cup {"aborted"} => notify = None
    BY DEF LifeInv, Notified, Notifies
  <1>c. pc \in Watching /\ notify # None =>
          /\ notify \in Numbers /\ open[notify] = "reload" /\ held["reload"] = notify
          /\ \A o \in Objects \ {"reload"} : held[o] # notify
    <2> SUFFICES ASSUME pc \in Watching, notify # None
                 PROVE  /\ notify \in Numbers /\ open[notify] = "reload" /\ held["reload"] = notify
                        /\ \A o \in Objects \ {"reload"} : held[o] # notify
      OBVIOUS
    <2>1. notify \in Numbers /\ open[notify] = "reload"
      BY DEF LifeInv, LifeType, Notified, Notifies
    <2>2. held["reload"] = notify
      BY <1>a, <2>1, ObjectsAre DEF Owned
    <2> QED
      BY <1>a, <2>1, <2>2 DEF Owned
  <1>1. CASE Configure
    BY <1>1, <1>b DEF Configure, MainAt, Early, Watching, Leaving, vars, mainVars, fdVars,
       signalVars
  <1>2. CASE Listen("listen", "http", "pool")
    BY <1>2, <1>b DEF Listen, MainAt, Construct, Early, Watching, Leaving, vars, mainVars,
       fdVars, signalVars
  <1>3. CASE StartPool
    BY <1>3, <1>b DEF StartPool, MainAt, Construct, Early, Watching, Leaving, vars, mainVars,
       fdVars, signalVars
  <1>4. CASE PoolTerminates
    BY <1>4, <1>b DEF PoolTerminates, MainAt, Early, Watching, Leaving, vars, mainVars, fdVars,
       signalVars
  <1>5. ASSUME NEW works \in BOOLEAN, StartCompletion(works) PROVE Goal
    BY <1>5, <1>b DEF StartCompletion, MainAt, Construct, Early, Watching, Leaving, vars,
       mainVars, fdVars, signalVars
  <1>6. CASE Listen("tls", "tls", "epoll")
    BY <1>6, <1>b DEF Listen, MainAt, Construct, Early, Watching, Leaving, vars, mainVars,
       fdVars, signalVars
  <1>7. CASE StartEpoll
    BY <1>7, <1>b DEF StartEpoll, MainAt, Construct, Early, Watching, Leaving, vars, mainVars,
       fdVars, signalVars
  <1>8. CASE StopListener("stopHttp", "http", "startHttp")
    BY <1>8, <1>b DEF StopListener, MainAt, Early, Watching, Leaving, vars, mainVars, fdVars,
       signalVars
  <1>9. CASE Restart("startHttp", "http", "watchCompletion")
    BY <1>9, <1>b DEF Restart, MainAt, Early, Watching, Leaving, vars, mainVars, fdVars,
       signalVars
  <1>10. ASSUME NEW works \in BOOLEAN, WatchCompletion(works) PROVE Goal
    BY <1>10, <1>b DEF WatchCompletion, MainAt, Early, Watching, Leaving, vars, mainVars,
       fdVars, signalVars
  <1>11. ASSUME NEW works \in BOOLEAN, StartReload(works) PROVE Goal
    BY <1>11, <1>b DEF StartReload, MainAt, Construct, Early, Watching, Leaving, vars,
       mainVars, fdVars, signalVars
  <1>12. CASE SetNotify
    BY <1>12, <1>b DEF SetNotify, MainAt, Early, Watching, Leaving, vars, mainVars, fdVars,
       signalVars
  <1>13. ASSUME NEW works \in BOOLEAN, WatchReload(works) PROVE Goal
    <2>1. works /\ pc = "watchReload" /\ notify' = notify /\ watch' = [watch EXCEPT ![held["reload"]] = "reload"]
      BY <1>13 DEF WatchReload, MainAt
    <2>2. notify \in Numbers /\ held["reload"] = notify
      BY <1>c, <2>1 DEF Watching
    <2> QED
      BY <1>a, <2>1, <2>2 DEF LifeType
  <1>14. CASE WatchListener("watchHttp", "http", IF tls THEN "stopTls" ELSE "loop")
    <2>1. pc = "watchHttp" /\ notify' = notify /\ watch' = [watch EXCEPT ![held["http"]] = "http"]
      BY <1>14 DEF WatchListener, MainAt, signalVars
    <2>2. notify \in Numbers /\ held["http"] # notify /\ watch[notify] = "reload"
      BY <1>b, <1>c, <2>1, ObjectsAre DEF Watching
    <2> QED
      BY <1>a, <2>1, <2>2 DEF LifeType
  <1>15. CASE StopListener("stopTls", "tls", "startTls")
    <2>1. pc = "stopTls" /\ notify' = notify /\ Gives("tls")
      BY <1>15, FdActions DEF StopListener, MainAt, signalVars
    <2>2. \A n \in Numbers : n # held["tls"] => watch'[n] = watch[n]
      BY <1>a, <2>1, GivesFacts
    <2> QED
      BY <1>b, <1>c, <2>1, <2>2, ObjectsAre DEF Watching
  <1>16. CASE Restart("startTls", "tls", "watchTls")
    BY <1>16, <1>b DEF Restart, MainAt, Early, Watching, Leaving, vars, mainVars, fdVars,
       signalVars
  <1>17. CASE WatchListener("watchTls", "tls", "loop")
    <2>1. pc = "watchTls" /\ notify' = notify /\ watch' = [watch EXCEPT ![held["tls"]] = "tls"]
      BY <1>17 DEF WatchListener, MainAt, signalVars
    <2>2. notify \in Numbers /\ held["tls"] # notify /\ watch[notify] = "reload"
      BY <1>b, <1>c, <2>1, ObjectsAre DEF Watching
    <2> QED
      BY <1>a, <2>1, <2>2 DEF LifeType
  <1>18. ASSUME NEW p \in {"config", "listen", "pool", "tls", "epoll", "startHttp", "watchHttp", "startTls", "watchTls", "loop"}, GiveUp(p) PROVE Goal
    BY <1>18, <1>b DEF GiveUp, MainAt, Early, Watching, Leaving, vars, mainVars, fdVars,
       signalVars
  <1>19. CASE Submit
    BY <1>19, <1>b DEF Submit, MainAt, Early, Watching, Leaving, vars, mainVars, fdVars,
       signalVars
  <1>20. CASE LeaveLoop
    BY <1>20, <1>b DEF LeaveLoop, MainAt, Early, Watching, Leaving, vars, mainVars, fdVars,
       signalVars
  <1>21. CASE EndScope
    BY <1>21, <1>b DEF EndScope, MainAt, Early, Watching, Leaving, vars, mainVars, fdVars,
       signalVars
  <1>22. CASE StopListening
    BY <1>22, <1>b DEF StopListening, StopListener, MainAt, Early, Watching, Leaving, vars,
       mainVars, fdVars, signalVars
  <1>23. CASE ShutdownPool
    BY <1>23, <1>b DEF ShutdownPool, ShutdownQueue, Join, MainAt, Early, Watching, Leaving,
       vars, mainVars, fdVars, signalVars
  <1>24. CASE Unwind
    BY <1>24, <1>b, <1>a, UnwindCases DEF Early, Watching, Leaving, vars, mainVars, fdVars,
       signalVars
  <1>25. CASE TakeJob
    BY <1>25, <1>b DEF TakeJob, WorkerStep, Early, Watching, Leaving, vars, mainVars, fdVars,
       signalVars
  <1>26. CASE OpenFile
    BY <1>26, <1>b DEF OpenFile, WorkerStep, Early, Watching, Leaving, vars, mainVars, fdVars,
       signalVars
  <1>27. CASE CloseFile
    BY <1>27, <1>b DEF CloseFile, WorkerStep, Early, Watching, Leaving, vars, mainVars, fdVars,
       signalVars
  <1>28. CASE Deliver
    BY <1>28, <1>b DEF Deliver, WorkerStep, Early, Watching, Leaving, vars, mainVars, fdVars,
       signalVars
  <1>29. CASE WorkerExits
    BY <1>29, <1>b DEF WorkerExits, Early, Watching, Leaving, vars, mainVars, fdVars,
       signalVars
  <1>30. CASE SigTerm
    BY <1>30, <1>b DEF SigTerm, Early, Watching, Leaving, vars, mainVars, fdVars, signalVars
  <1>31. CASE SigHup
    BY <1>31, <1>b DEF SigHup, Early, Watching, Leaving, vars, mainVars, fdVars, signalVars
  <1>32. CASE WriteWakeup
    BY <1>32, <1>b DEF WriteWakeup, Early, Watching, Leaving, vars, mainVars, fdVars,
       signalVars
  <1>33. CASE UNCHANGED vars
    BY <1>33, <1>b DEF Early, Watching, Leaving, vars, mainVars, fdVars, signalVars
  <1> QED
    BY <1>1, <1>2, <1>3, <1>4, <1>5, <1>6, <1>7, <1>8, <1>9, <1>10, <1>11, <1>12, <1>13, <1>14,
       <1>15, <1>16, <1>17, <1>18, <1>19, <1>20, <1>21, <1>22, <1>23, <1>24, <1>25, <1>26,
       <1>27, <1>28, <1>29, <1>30, <1>31, <1>32, <1>33 DEF Next, Startup, Shutdown, LoopThrows,
       WorkerThread, Ended

LEMMA NotifiedStep ==
  ASSUME LifeInv, [Next]_vars
  PROVE  Notified'
  <1>1. stray' = {}
    <2> DEFINE Goal == stray' = {}
    <2> SUFFICES Goal
      OBVIOUS
    <2>a. stray = {} /\ alive \in SUBSET Objects
      BY DEF LifeInv, LifeType, Notified
    <2>1. CASE Configure
      BY <2>1, <2>a DEF Configure, MainAt, vars, signalVars
    <2>2. CASE Listen("listen", "http", "pool")
      BY <2>2, <2>a DEF Listen, MainAt, Construct, vars, signalVars
    <2>3. CASE StartPool
      BY <2>3, <2>a DEF StartPool, MainAt, Construct, vars, signalVars
    <2>4. CASE PoolTerminates
      BY <2>4, <2>a DEF PoolTerminates, MainAt, vars, signalVars
    <2>5. ASSUME NEW works \in BOOLEAN, StartCompletion(works) PROVE Goal
      BY <2>5, <2>a DEF StartCompletion, MainAt, Construct, vars, signalVars
    <2>6. CASE Listen("tls", "tls", "epoll")
      BY <2>6, <2>a DEF Listen, MainAt, Construct, vars, signalVars
    <2>7. CASE StartEpoll
      BY <2>7, <2>a DEF StartEpoll, MainAt, Construct, vars, signalVars
    <2>8. CASE StopListener("stopHttp", "http", "startHttp")
      BY <2>8, <2>a DEF StopListener, MainAt, vars, signalVars
    <2>9. CASE Restart("startHttp", "http", "watchCompletion")
      BY <2>9, <2>a DEF Restart, MainAt, vars, signalVars
    <2>10. ASSUME NEW works \in BOOLEAN, WatchCompletion(works) PROVE Goal
      BY <2>10, <2>a DEF WatchCompletion, MainAt, vars, signalVars
    <2>11. ASSUME NEW works \in BOOLEAN, StartReload(works) PROVE Goal
      BY <2>11, <2>a DEF StartReload, MainAt, Construct, vars, signalVars
    <2>12. CASE SetNotify
      BY <2>12, <2>a DEF SetNotify, MainAt, vars, signalVars
    <2>13. ASSUME NEW works \in BOOLEAN, WatchReload(works) PROVE Goal
      BY <2>13, <2>a DEF WatchReload, MainAt, vars, signalVars
    <2>14. CASE WatchListener("watchHttp", "http", IF tls THEN "stopTls" ELSE "loop")
      BY <2>14, <2>a DEF WatchListener, MainAt, vars, signalVars
    <2>15. CASE StopListener("stopTls", "tls", "startTls")
      BY <2>15, <2>a DEF StopListener, MainAt, vars, signalVars
    <2>16. CASE Restart("startTls", "tls", "watchTls")
      BY <2>16, <2>a DEF Restart, MainAt, vars, signalVars
    <2>17. CASE WatchListener("watchTls", "tls", "loop")
      BY <2>17, <2>a DEF WatchListener, MainAt, vars, signalVars
    <2>18. ASSUME NEW p \in {"config", "listen", "pool", "tls", "epoll", "startHttp", "watchHttp", "startTls", "watchTls", "loop"}, GiveUp(p) PROVE Goal
      BY <2>18, <2>a DEF GiveUp, MainAt, vars, signalVars
    <2>19. CASE Submit
      BY <2>19, <2>a DEF Submit, MainAt, vars, signalVars
    <2>20. CASE LeaveLoop
      BY <2>20, <2>a DEF LeaveLoop, MainAt, vars, signalVars
    <2>21. CASE EndScope
      BY <2>21, <2>a DEF EndScope, MainAt, vars, signalVars
    <2>22. CASE StopListening
      BY <2>22, <2>a DEF StopListening, StopListener, MainAt, vars, signalVars
    <2>23. CASE ShutdownPool
      BY <2>23, <2>a DEF ShutdownPool, ShutdownQueue, Join, MainAt, vars, signalVars
    <2>24. CASE Unwind
      BY <2>24, <2>a, UnwindCases DEF vars, signalVars
    <2>25. CASE TakeJob
      BY <2>25, <2>a DEF TakeJob, WorkerStep, vars, signalVars
    <2>26. CASE OpenFile
      BY <2>26, <2>a DEF OpenFile, WorkerStep, vars, signalVars
    <2>27. CASE CloseFile
      BY <2>27, <2>a DEF CloseFile, WorkerStep, vars, signalVars
    <2>28. CASE Deliver
      BY <2>28, <2>a DEF Deliver, WorkerStep, vars, signalVars
    <2>29. CASE WorkerExits
      BY <2>29, <2>a DEF WorkerExits, vars, signalVars
    <2>30. CASE SigTerm
      BY <2>30, <2>a DEF SigTerm, vars, signalVars
    <2>31. CASE SigHup
      BY <2>31, <2>a DEF SigHup, vars, signalVars
    <2>32. CASE WriteWakeup
      <3>1. open[hup] \in {"reload", "free", "file"}
        BY <2>32 DEF WriteWakeup, LifeInv, Notified, Notifies
      <3> QED
        BY <2>32, <2>a, <3>1 DEF WriteWakeup
    <2>33. CASE UNCHANGED vars
      BY <2>33, <2>a DEF vars, signalVars
    <2> QED
      BY <2>1, <2>2, <2>3, <2>4, <2>5, <2>6, <2>7, <2>8, <2>9, <2>10, <2>11, <2>12, <2>13,
         <2>14, <2>15, <2>16, <2>17, <2>18, <2>19, <2>20, <2>21, <2>22, <2>23, <2>24, <2>25,
         <2>26, <2>27, <2>28, <2>29, <2>30, <2>31, <2>32, <2>33 DEF Next, Startup, Shutdown,
         LoopThrows, WorkerThread, Ended
  <1> QED
    BY <1>1, NumbersKept, ReloadHeld, NotifyWatched DEF Notified

-----------------------------------------------------------------------------
(* Listeners *)

LEMMA ListeningStep ==
  ASSUME LifeInv, [Next]_vars
  PROVE  Listening'
  <1>a. LifeType /\ Owned /\ Listening /\ alive \in SUBSET Objects
    BY DEF LifeInv, LifeType
  <1>b. \A x, y \in Objects : x # y /\ held[x] # None => held[x] \in Numbers /\ held[x] # held[y]
    BY <1>a DEF LifeType, Owned
  <1>c. "http" \in Objects /\ "tls" \in Objects /\ "reload" \in Objects /\ "completion" \in Objects
    BY ObjectsAre
  <1>1. CASE Configure
    BY <1>1, <1>a DEF Configure, MainAt, Listening, Watching, vars, mainVars, fdVars
  <1>2. CASE Listen("listen", "http", "pool")
    BY <1>2, <1>a DEF Listen, MainAt, Construct, Listening, Watching, vars, mainVars, fdVars
  <1>3. CASE StartPool
    BY <1>3, <1>a DEF StartPool, MainAt, Construct, Listening, Watching, vars, mainVars, fdVars
  <1>4. CASE PoolTerminates
    BY <1>4, <1>a DEF PoolTerminates, MainAt, Listening, Watching, vars, mainVars, fdVars
  <1>5. ASSUME NEW works \in BOOLEAN, StartCompletion(works) PROVE Listening'
    BY <1>5, <1>a DEF StartCompletion, MainAt, Construct, Listening, Watching, vars, mainVars,
       fdVars
  <1>6. CASE Listen("tls", "tls", "epoll")
    BY <1>6, <1>a DEF Listen, MainAt, Construct, Listening, Watching, vars, mainVars, fdVars
  <1>7. CASE StartEpoll
    BY <1>7, <1>a DEF StartEpoll, MainAt, Construct, Listening, Watching, vars, mainVars,
       fdVars
  <1>8. CASE StopListener("stopHttp", "http", "startHttp")
    <2>1. pc = "stopHttp" /\ pc' = "startHttp" /\ UNCHANGED <<blocking, tls>> /\ Gives("http")
      BY <1>8, FdActions DEF StopListener, MainAt
    <2>2. /\ held'["http"] = None /\ \A x \in Objects : x # "http" => held'[x] = held[x]
          /\ \A n \in Numbers : n # held["http"] => watch'[n] = watch[n]
      BY <1>a, <2>1, GivesFacts
    <2> QED
      BY <1>a, <1>b, <1>c, <2>1, <2>2 DEF Listening, Watching
  <1>9. CASE Restart("startHttp", "http", "watchCompletion")
    <2>1. pc = "startHttp" /\ pc' = "watchCompletion" /\ blocking' = blocking \ {"http"} /\ UNCHANGED <<watch, tls>> /\ Takes("http")
      BY <1>9, FdActions DEF Restart, MainAt
    <2>2. held'["http"] # None /\ \A x \in Objects : x # "http" => held'[x] = held[x]
      BY <1>a, <2>1, TakesFacts
    <2> QED
      BY <1>a, <1>c, <2>1, <2>2 DEF Listening, Watching
  <1>10. ASSUME NEW works \in BOOLEAN, WatchCompletion(works) PROVE Listening'
    BY <1>10, <1>a DEF WatchCompletion, MainAt, Listening, Watching, vars, mainVars, fdVars
  <1>11. ASSUME NEW works \in BOOLEAN, StartReload(works) PROVE Listening'
    <2>1. pc = "reload" /\ pc' \in {"notify", "watchHttp"} /\ UNCHANGED <<blocking, tls>> /\ (Same \/ Takes("reload"))
      BY <1>11, FdActions DEF StartReload, MainAt, Construct
    <2>2. \A x \in Objects : x # "reload" => held'[x] = held[x]
      BY <1>a, <2>1, TakesFacts DEF Same
    <2> QED
      BY <1>a, <1>c, <2>1, <2>2 DEF Listening, Watching
  <1>12. CASE SetNotify
    BY <1>12, <1>a DEF SetNotify, MainAt, Listening, Watching, vars, mainVars, fdVars
  <1>13. ASSUME NEW works \in BOOLEAN, WatchReload(works) PROVE Listening'
    BY <1>13, <1>a DEF WatchReload, MainAt, Listening, Watching, vars, mainVars, fdVars
  <1>14. CASE WatchListener("watchHttp", "http", IF tls THEN "stopTls" ELSE "loop")
    <2>1. /\ pc = "watchHttp" /\ pc' \in {"stopTls", "loop"} /\ (pc' = "loop" => ~tls) /\ UNCHANGED <<blocking, held, tls>>
          /\ watch' = [watch EXCEPT ![held["http"]] = "http"]
      BY <1>14, <1>a DEF WatchListener, MainAt, fdVars, LifeType
    <2>2. /\ held["http"] \in Numbers /\ watch'[held["http"]] = "http"
          /\ \A n \in Numbers : n # held["http"] => watch'[n] = watch[n]
      BY <1>a, <1>b, <1>c, <2>1 DEF Listening, Watching, LifeType
    <2> QED
      BY <1>a, <1>b, <1>c, <2>1, <2>2 DEF Listening, Watching
  <1>15. CASE StopListener("stopTls", "tls", "startTls")
    <2>1. pc = "stopTls" /\ pc' = "startTls" /\ UNCHANGED <<blocking, tls>> /\ Gives("tls")
      BY <1>15, FdActions DEF StopListener, MainAt
    <2>2. /\ held'["tls"] = None /\ \A x \in Objects : x # "tls" => held'[x] = held[x]
          /\ \A n \in Numbers : n # held["tls"] => watch'[n] = watch[n]
      BY <1>a, <2>1, GivesFacts
    <2> QED
      BY <1>a, <1>b, <1>c, <2>1, <2>2 DEF Listening, Watching
  <1>16. CASE Restart("startTls", "tls", "watchTls")
    <2>1. pc = "startTls" /\ pc' = "watchTls" /\ blocking' = blocking \ {"tls"} /\ UNCHANGED <<watch, tls>> /\ Takes("tls")
      BY <1>16, FdActions DEF Restart, MainAt
    <2>2. held'["tls"] # None /\ \A x \in Objects : x # "tls" => held'[x] = held[x]
      BY <1>a, <2>1, TakesFacts
    <2> QED
      BY <1>a, <1>c, <2>1, <2>2 DEF Listening, Watching
  <1>17. CASE WatchListener("watchTls", "tls", "loop")
    <2>1. /\ pc = "watchTls" /\ pc' \in {"loop"} /\ UNCHANGED <<blocking, held, tls>>
          /\ watch' = [watch EXCEPT ![held["tls"]] = "tls"]
      BY <1>17, <1>a DEF WatchListener, MainAt, fdVars, LifeType
    <2>2. /\ held["tls"] \in Numbers /\ watch'[held["tls"]] = "tls"
          /\ \A n \in Numbers : n # held["tls"] => watch'[n] = watch[n]
      BY <1>a, <1>b, <1>c, <2>1 DEF Listening, Watching, LifeType
    <2> QED
      BY <1>a, <1>b, <1>c, <2>1, <2>2 DEF Listening, Watching
  <1>18. ASSUME NEW p \in {"config", "listen", "pool", "tls", "epoll", "startHttp", "watchHttp", "startTls", "watchTls", "loop"}, GiveUp(p) PROVE Listening'
    BY <1>18, <1>a DEF GiveUp, MainAt, Listening, Watching, vars, mainVars, fdVars
  <1>19. CASE Submit
    BY <1>19, <1>a DEF Submit, MainAt, Listening, Watching, vars, mainVars, fdVars
  <1>20. CASE LeaveLoop
    BY <1>20, <1>a DEF LeaveLoop, MainAt, Listening, Watching, vars, mainVars, fdVars
  <1>21. CASE EndScope
    BY <1>21, <1>a DEF EndScope, MainAt, Listening, Watching, vars, mainVars, fdVars
  <1>22. CASE StopListening
    BY <1>22, <1>a DEF StopListening, StopListener, MainAt, Listening, Watching, vars,
       mainVars, fdVars
  <1>23. CASE ShutdownPool
    BY <1>23, <1>a DEF ShutdownPool, ShutdownQueue, Join, MainAt, Listening, Watching, vars,
       mainVars, fdVars
  <1>24. CASE Unwind
    BY <1>24, <1>a, UnwindCases DEF Listening, Watching, vars, mainVars, fdVars
  <1>25. CASE TakeJob
    BY <1>25, <1>a DEF TakeJob, WorkerStep, Listening, Watching, vars, mainVars, fdVars
  <1>26. CASE OpenFile
    BY <1>26, <1>a DEF OpenFile, WorkerStep, Listening, Watching, vars, mainVars, fdVars
  <1>27. CASE CloseFile
    BY <1>27, <1>a DEF CloseFile, WorkerStep, Listening, Watching, vars, mainVars, fdVars
  <1>28. CASE Deliver
    BY <1>28, <1>a DEF Deliver, WorkerStep, Listening, Watching, vars, mainVars, fdVars
  <1>29. CASE WorkerExits
    BY <1>29, <1>a DEF WorkerExits, Listening, Watching, vars, mainVars, fdVars
  <1>30. CASE SigTerm
    BY <1>30, <1>a DEF SigTerm, Listening, Watching, vars, mainVars, fdVars
  <1>31. CASE SigHup
    BY <1>31, <1>a DEF SigHup, Listening, Watching, vars, mainVars, fdVars
  <1>32. CASE WriteWakeup
    BY <1>32, <1>a DEF WriteWakeup, Listening, Watching, vars, mainVars, fdVars
  <1>33. CASE UNCHANGED vars
    BY <1>33, <1>a DEF Listening, Watching, vars, mainVars, fdVars
  <1> QED
    BY <1>1, <1>2, <1>3, <1>4, <1>5, <1>6, <1>7, <1>8, <1>9, <1>10, <1>11, <1>12, <1>13, <1>14,
       <1>15, <1>16, <1>17, <1>18, <1>19, <1>20, <1>21, <1>22, <1>23, <1>24, <1>25, <1>26,
       <1>27, <1>28, <1>29, <1>30, <1>31, <1>32, <1>33 DEF Next, Startup, Shutdown, LoopThrows,
       WorkerThread, Ended

-----------------------------------------------------------------------------
(* The theorems *)

\* main keeps its invariant: a descriptor has one living owner, objects and the
\* pool exist where main is, and the number given to the signal handler never
\* comes to mean a socket.
THEOREM LifeCorrect == Spec => []LifeInv
  <1>1. Init => LifeInv
    <2> SUFFICES ASSUME Init PROVE LifeInv
      OBVIOUS
    <2> USE DEF Init
    <2>1. LifeType
      <3>1. tls \in BOOLEAN /\ alive \in SUBSET Objects /\ pc \in Places
        BY LifecycleAssumption DEF Places, Early
      <3>2. /\ open \in [Numbers -> Objects \cup {"file", "free"}]
            /\ held \in [Objects -> Numbers \cup {None}]
            /\ watch \in [Numbers -> Objects \cup {"none"}]
        OBVIOUS
      <3>3. /\ code \in 0..2 /\ notify \in Numbers \cup {None} /\ hup \in Numbers \cup {None}
            /\ pool \in {"none", "running", "shutdown", "joined"} /\ jobs \in Nat
            /\ worker \in {"idle", "opens", "reads", "delivers"} /\ dangling \in BOOLEAN
        <4>1. code = 2 /\ jobs = 0
          OBVIOUS
        <4>2. code \in 0..2 /\ jobs \in Nat
          BY ONLY <4>1
        <4> QED
          BY <4>2
      <3> HIDE DEF Init
      <3> QED
        BY <3>1, <3>2, <3>3 DEF LifeType
    <2>2. Owned
      BY ObjectsAre DEF Owned, None
    <2>3. Existing /\ Working
      BY DEF Existing, Working, Early, Watching, Leaving
    <2>4. Notified /\ Listening
      BY DEF Notified, Notifies, Listening, Early, Watching
    <2> QED
      BY <2>1, <2>2, <2>3, <2>4 DEF LifeInv
  <1>2. LifeInv /\ [Next]_vars => LifeInv'
    BY LifeTypeStep, OwnedStep, ExistingStep, WorkingStep, NotifiedStep, ListeningStep DEF LifeInv
  <1> QED
    BY <1>1, <1>2, PTL DEF Spec

\* Whatever failed on the way, main enters and runs its loop only with every
\* configured listener restarted non-blocking, open under the number that epoll
\* watches for it.
THEOREM AlwaysListensWhole == Spec => []ListensWhole
  <1>1. LifeInv => ListensWhole
    <2> SUFFICES ASSUME LifeInv, pc = "loop", NEW l \in Listeners
                 PROVE  /\ held[l] # None /\ open[held[l]] = l
                        /\ l \notin blocking /\ watch[held[l]] = l
      BY DEF ListensWhole
    <2>1. l \in Objects /\ (l = "http" \/ (l = "tls" /\ tls))
      BY ObjectsAre DEF Listeners
    <2>2. held[l] # None /\ l \notin blocking /\ watch[held[l]] = l
      BY <2>1 DEF LifeInv, Listening, Watching
    <2> QED
      BY <2>1, <2>2 DEF LifeInv, Owned
  <1> QED
    BY <1>1, LifeCorrect, PTL

\* request_reload, at any point and however late it writes, reaches the reload
\* eventfd or nobody, and one that the running loop watches.
THEOREM WakeupsAlwaysReachReload == Spec => []WakeupsReachReload
  <1>1. LifeInv => WakeupsReachReload
    BY DEF LifeInv, Notified, WakeupsReachReload, Watching
  <1> QED
    BY <1>1, LifeCorrect, PTL

\* Every way out that returns a code has joined the workers after their last
\* job and closed every descriptor, and a result reaches a destroyed completion
\* handler only when the loop was left by an exception.
THEOREM ExitIsClean == Spec => []CleanExit
  <1>1. LifeInv => CleanExit
    <2> SUFFICES ASSUME LifeInv PROVE CleanExit
      OBVIOUS
    <2>1. ASSUME pc = "exited"
          PROVE  /\ pool \in {"none", "joined"} /\ jobs = 0
                 /\ \A n \in Numbers : open[n] = "free"
      <3>1. alive = {}
        BY <2>1 DEF LifeInv, Existing
      <3>2. pool \in {"none", "joined"}
        BY <3>1 DEF LifeInv, LifeType, Existing
      <3>3. jobs = 0 /\ worker = "idle"
        BY <3>2 DEF LifeInv, Working
      <3>4. ASSUME NEW n \in Numbers PROVE open[n] = "free"
        <4>1. open[n] # "file"
          BY <3>3 DEF LifeInv, Owned
        <4>2. open[n] \notin Objects
          <5> SUFFICES ASSUME open[n] \in Objects PROVE FALSE
            OBVIOUS
          <5>1. held[open[n]] = n /\ n # None
            BY ObjectsAre DEF LifeInv, Owned, None
          <5> QED
            BY <3>1, <5>1 DEF LifeInv, Owned
        <4> QED
          BY <4>1, <4>2 DEF LifeInv, LifeType
      <3> QED
        BY <3>2, <3>3, <3>4
    <2>2. dangling => code = 1
      BY DEF LifeInv, Working
    <2> QED
      BY <2>1, <2>2 DEF CleanExit
  <1> QED
    BY <1>1, LifeCorrect, PTL
=============================================================================
