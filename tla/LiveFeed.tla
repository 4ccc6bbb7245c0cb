------------------------------ MODULE LiveFeed ------------------------------
(***************************************************************************)
(* useLiveFeed (apps/web/src/lib/ws.ts): the WebSocket of the dashboard.   *)
(* Every mount of the page has one chain of sockets and reconnect timers;  *)
(* what a page that was left still runs has no effect on the next one.     *)
(***************************************************************************)
EXTENDS Naturals, SequencesExt

CONSTANTS Mounts,   \* mounts of the dashboard in a run
          FeedCap   \* the events a page remembers

ASSUME FeedAssumption == {Mounts, FeedCap} \subseteq Nat

VARIABLES mount,    \* number of the last mount
          stop,     \* its cleanup has run
          link,     \* where each mount's socket, or timer, stands
          late,     \* sockets opened after the cleanup
          events    \* newest first

feedVars == <<mount, stop, link, late, events>>

FeedInit == /\ mount = 0 /\ events = <<>>
            /\ stop = [m \in 1 .. Mounts |-> FALSE]
            /\ link = [m \in 1 .. Mounts |-> "none"]
            /\ late = [m \in 1 .. Mounts |-> 0]

connected == mount > 0 /\ ~stop[mount] /\ link[mount] = "open"

connect(m) == link' = [link EXCEPT ![m] = "connecting"]

FeedMount == /\ mount < Mounts /\ mount' = mount + 1
             /\ connect(mount + 1) /\ events' = <<>>
             /\ UNCHANGED <<stop, late>>

(* close() does nothing to a socket that is closed, and the timer runs on. *)
FeedUnmount == /\ stop' = [stop EXCEPT ![mount] = TRUE]
               /\ link' = [link EXCEPT ![mount] = IF @ = "waiting" THEN @ ELSE "closing"]
               /\ UNCHANGED <<mount, late>> /\ events' = <<>>

onopen(m) == /\ link[m] = "connecting" /\ link' = [link EXCEPT ![m] = "open"]
             /\ UNCHANGED <<mount, stop, late, events>>

(* A bug to detect: the handler of a page that was left reconnects too.    *)
oncloseUnstopped(m) ==
    /\ link[m] \in {"connecting", "open", "closing"}
    /\ link' = [link EXCEPT ![m] = "waiting"]
    /\ UNCHANGED <<mount, stop, late, events>>

(* A bug to detect: only a socket that was open is replaced.               *)
oncloseOpenOnly(m) ==
    /\ link[m] \in {"connecting", "open", "closing"}
    /\ link' = [link EXCEPT ![m] = IF stop[m] \/ @ = "connecting" THEN "closed" ELSE "waiting"]
    /\ UNCHANGED <<mount, stop, late, events>>

onclose(m) ==
    /\ link[m] \in {"connecting", "open", "closing"}
    /\ link' = [link EXCEPT ![m] = IF stop[m] THEN "closed" ELSE "waiting"]
    /\ UNCHANGED <<mount, stop, late, events>>

(* The timer does not look at stop.                                        *)
Reconnect(m) == /\ link[m] = "waiting" /\ connect(m)
                /\ late' = [late EXCEPT ![m] = IF stop[m] THEN @ + 1 ELSE @]
                /\ UNCHANGED <<mount, stop, events>>

(* A bug to detect: the log is never cut.                                  *)
LoggedUncut(ev) == <<ev>> \o events

Logged(ev) == SubSeq(<<ev>> \o events, 1, IF Len(events) < FeedCap THEN Len(events) + 1
                                          ELSE FeedCap)

onmessage(ev) == /\ connected /\ events' = Logged(ev)
                 /\ UNCHANGED <<mount, stop, link, late>>

Socket(m) == onopen(m) \/ onclose(m)

FeedTypeOK == /\ mount \in 0 .. Mounts /\ Len(events) <= FeedCap
              /\ stop \in [1 .. Mounts -> BOOLEAN]
              /\ link \in [1 .. Mounts -> {"none", "connecting", "open", "waiting",
                                           "closing", "closed"}]
              /\ \A m \in 1 .. Mounts : (link[m] = "none") <=> (m > mount)
              /\ late \in [1 .. Mounts -> Nat]
              /\ \A m \in 1 .. Mounts : /\ m < mount => stop[m]
                                        /\ m > mount => ~stop[m]
=============================================================================
