----------------------------- MODULE ContainerLife -----------------------------
(***************************************************************************)
(* The container of one isolated exchange: the launcher that creates,       *)
(* starts and removes it (execute, run/isolation.py, and its asynchronous   *)
(* twin, run/async_isolation.py), the detached watchdog that removes it     *)
(* too (run/watchdog.py), and the Docker daemon, which may carry out a      *)
(* request whose client has given up.  Either process may be killed.        *)
(* The exchange itself is the subject of Duplex, and IsolatedExchange       *)
(* composes the two.                                                        *)
(***************************************************************************)
EXTENDS Naturals

VARIABLES box,            \* the container, as the daemon has it
          requests,       \* what the daemon may still carry out
          launcher,       \* where the launcher is
          known,          \* it has the container's id
          guarded,        \* it has a watchdog handle
          result,         \* what its call will come to
          lease,          \* the write end of the lease pipe, which only it holds
          watchdog, tries, record

MaxTries == 3

ContainerTypeOK ==
  /\ box \in {"none", "created", "running", "exited", "gone"}
  /\ requests \subseteq {"create", "start", "remove"}
  /\ launcher \in {"create", "creating", "arm", "arming", "start", "exchange", "inspect",
                   "remove", "finish", "ended", "killed"}
  /\ known \in BOOLEAN /\ guarded \in BOOLEAN
  /\ result \in {"none", "answer", "raised"} /\ lease \in {"none", "open", "closed"}
  /\ watchdog \in {"none", "spawned", "armed", "removing", "ended", "dead"}
  /\ tries \in 0..MaxTries /\ record \in {"none", "armed", "removed", "cleanup_failed"}

Init == /\ box = "none" /\ requests = {} /\ launcher = "create"
        /\ known = FALSE /\ guarded = FALSE /\ result = "none" /\ lease = "none"
        /\ watchdog = "none" /\ tries = 0 /\ record = "none"

-----------------------------------------------------------------------------
(* The daemon, in its own time.  An id is never given to a container again. *)
Remove(b) == IF b = "none" THEN "none" ELSE "gone"
Carries(r) ==
  /\ r \in requests /\ requests' = requests \ {r}
  /\ box' = CASE r = "create" -> "created"
              [] r = "start" -> IF box = "created" THEN "running" ELSE box
              [] r = "remove" -> Remove(box)
  /\ UNCHANGED <<launcher, known, guarded, result, lease, watchdog, tries, record>>
WorkerExits == /\ box = "running" /\ box' = "exited"
               /\ UNCHANGED <<requests, launcher, known, guarded, result, lease, watchdog,
                              tries, record>>

-----------------------------------------------------------------------------
(* The launcher.  Any call may raise, a cancellation or a failed            *)
(* revalidation may stop it before the next: the finally clause follows.    *)
Gives(l, r) == launcher' = l /\ result' = r
Stops == /\ launcher \in {"creating", "arm", "start", "exchange", "inspect"}
         /\ Gives("remove", "raised")
         /\ UNCHANGED <<box, requests, known, guarded, lease, watchdog, tries, record>>
Create == /\ launcher = "create" /\ launcher' = "creating" /\ requests' = {"create"}
          /\ UNCHANGED <<box, known, guarded, result, lease, watchdog, tries, record>>
Created == /\ launcher = "creating" /\ box # "none" /\ launcher' = "arm" /\ known' = TRUE
           /\ UNCHANGED <<box, requests, guarded, result, lease, watchdog, tries, record>>

(* arm_watchdog: the guardian is spawned and says it is ready, or the call  *)
(* closes the lease and raises, and leaves the guardian to itself.          *)
Spawn == /\ launcher = "arm" /\ launcher' = "arming"
         /\ watchdog' = "spawned" /\ lease' = "open"
         /\ UNCHANGED <<box, requests, known, guarded, result, tries, record>>
StartUnready ==                                      \* mutant: does not wait for it
  /\ launcher = "arming" /\ launcher' = "start" /\ guarded' = TRUE
  /\ UNCHANGED <<box, requests, known, result, lease, watchdog, tries, record>>
Ready == /\ launcher = "arming" /\ watchdog = "armed" /\ launcher' = "start" /\ guarded' = TRUE
         /\ UNCHANGED <<box, requests, known, result, lease, watchdog, tries, record>>
NotReady == /\ launcher = "arming" /\ lease' = "closed" /\ Gives("remove", "raised")
            /\ UNCHANGED <<box, requests, known, guarded, watchdog, tries, record>>

Start == /\ launcher = "start" /\ launcher' = "exchange" /\ requests' = requests \cup {"start"}
         /\ UNCHANGED <<box, known, guarded, result, lease, watchdog, tries, record>>
Answered == /\ launcher = "exchange" /\ box = "exited" /\ launcher' = "inspect"
            /\ UNCHANGED <<box, requests, known, guarded, result, lease, watchdog, tries,
                           record>>
Inspect == /\ launcher = "inspect" /\ box = "exited" /\ Gives("remove", "answer")
           /\ UNCHANGED <<box, requests, known, guarded, lease, watchdog, tries, record>>

(* remove_exact: the daemon removes the container, or the request fails     *)
(* (and is carried out later, perhaps) and only an empty listing will do.   *)
RemovalTrusted(gone) ==            \* mutant: a failed removal lost the race, surely
  \/ gone /\ box' = Remove(box) /\ UNCHANGED requests
  \/ gone /\ UNCHANGED <<box, requests>>
  \/ ~gone /\ requests' = requests \cup {"remove"} /\ UNCHANGED box
Removal(gone) ==
  \/ gone /\ box' = Remove(box) /\ UNCHANGED requests
  \/ gone /\ box = "gone" /\ UNCHANGED <<box, requests>>
  \/ ~gone /\ requests' \in {requests, requests \cup {"remove"}} /\ UNCHANGED box

(* finally: by id when it is known, else by the name, which proves nothing; *)
(* then the watchdog's receipt.                                             *)
RemoveBox == /\ launcher = "remove"
             /\ \E gone \in BOOLEAN :
                  /\ Removal(gone)
                  /\ Gives(IF guarded THEN "finish" ELSE "ended",
                           IF gone /\ known THEN result ELSE "raised")
             /\ UNCHANGED <<known, guarded, lease, watchdog, tries, record>>
FinishLease == /\ launcher = "finish" /\ lease = "open" /\ lease' = "closed"
               /\ UNCHANGED <<box, requests, launcher, known, guarded, result, watchdog,
                              tries, record>>
Finish == /\ launcher = "finish" /\ lease = "closed"
          /\ \/ watchdog = "ended" /\ record = "removed" /\ Gives("ended", result)
             \/ Gives("ended", "raised")
          /\ UNCHANGED <<box, requests, known, guarded, lease, watchdog, tries, record>>
Killed == /\ launcher \notin {"ended", "killed"} /\ launcher' = "killed"
          /\ lease' = IF lease = "open" THEN "closed" ELSE lease
          /\ UNCHANGED <<box, requests, known, guarded, result, watchdog, tries, record>>

-----------------------------------------------------------------------------
(* The watchdog: end of file on the lease, or its deadline.                 *)
Arms == /\ watchdog = "spawned"
        /\ \/ watchdog' = "armed" /\ record' = "armed"
           \/ watchdog' = "ended" /\ UNCHANGED record
        /\ UNCHANGED <<box, requests, launcher, known, guarded, result, lease, tries>>
Revoked == /\ watchdog = "armed" /\ lease = "closed" /\ watchdog' = "removing"
           /\ UNCHANGED <<box, requests, launcher, known, guarded, result, lease, tries, record>>
Expires == /\ watchdog = "armed" /\ watchdog' = "removing"
           /\ UNCHANGED <<box, requests, launcher, known, guarded, result, lease, tries, record>>
WatchdogEnds(r) == watchdog' = "ended" /\ tries' = 0 /\ record' \in {record, r}

TriesForever ==                                    \* mutant: the attempts have no end
  /\ watchdog = "removing" /\ tries' = (tries % MaxTries) + 1
  /\ \E gone \in BOOLEAN :
       /\ Removal(gone)
       /\ IF gone THEN watchdog' = "ended" /\ record' \in {record, "removed"}
                  ELSE UNCHANGED <<watchdog, record>>
  /\ UNCHANGED <<launcher, known, guarded, result, lease>>
Tries ==
  /\ watchdog = "removing"
  /\ \E gone \in BOOLEAN :
       /\ Removal(gone)
       /\ \/ gone /\ WatchdogEnds("removed")
          \/ /\ ~gone /\ tries + 1 < MaxTries /\ tries' = tries + 1
             /\ UNCHANGED <<watchdog, record>>
          \/ ~gone /\ tries + 1 = MaxTries /\ WatchdogEnds("cleanup_failed")
  /\ UNCHANGED <<launcher, known, guarded, result, lease>>
WatchdogDies == /\ watchdog \in {"spawned", "armed", "removing"} /\ watchdog' = "dead" /\ tries' = 0
                /\ UNCHANGED <<box, requests, launcher, known, guarded, result, lease, record>>

Daemon == (\E r \in {"create", "start", "remove"} : Carries(r)) \/ WorkerExits
Launches == \/ Create \/ Created \/ Spawn \/ Ready \/ NotReady \/ Start
            \/ Inspect \/ RemoveBox \/ FinishLease \/ Finish
Watches == Arms \/ Revoked \/ Expires \/ Tries

-----------------------------------------------------------------------------
(* A "removed" receipt and a returned answer both mean that the container   *)
(* is gone, and a worker runs only under a watchdog that was armed.         *)
ConfirmedGone ==
  /\ record = "removed" => box = "gone"
  /\ launcher = "ended" /\ result = "answer" => box = "gone" /\ record = "removed"
  /\ box = "running" => record # "none"

(* A worker that runs is removed, though its launcher may be killed, or     *)
(* both guardians have failed: the call raised or died, and the watchdog    *)
(* died, or ended without a "removed" receipt.                              *)
BothFailed == /\ launcher = "killed" \/ (launcher = "ended" /\ result = "raised")
              /\ watchdog = "dead" \/ (watchdog = "ended" /\ record # "removed")
WorkerRemoved == box = "running" ~> (box = "gone" \/ BothFailed)
=============================================================================
