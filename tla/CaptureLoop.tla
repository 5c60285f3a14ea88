---------------------------- MODULE CaptureLoop ----------------------------
(***************************************************************************)
(* The main loop of winws (win_main of nfqws.c, with the Windows part of   *)
(* darkmagic.c): WinDivert is open only while one of the networks named by *)
(* --ssid-filter and --nlm-filter is there. Which networks there are is    *)
(* asked once a second, before and while the loop waits for a packet. What *)
(* becomes of a packet that it takes is the matter of Flow and Datagrams.  *)
(***************************************************************************)
EXTENDS Integers

CONSTANTS Ssids, Nets,          \* names that may be given and seen
          MaxClock,             \* bound: seconds
          MaxPackets            \* bound: packets captured

VARIABLES ssidFilter, nlmFilter,  \* wlan_filter_ssid, nlm_filter_net: {} is none given
          wlan, nets,             \* networks connected now
          answers,                \* do WLAN and NLM answer?
          clock, polled,          \* the second it is, and whether the loop was seen in it
          tick,                   \* logical_net_filter_tick
          handle,                 \* w_filter: is WinDivert open?
          quit,                   \* bQuit
          lpc,                    \* place in win_main
          queue,                  \* packets the driver holds for the handle
          lastHere,               \* ghost: last second with the network there
          took                    \* ghost: [n |-> packets taken, at |-> second of the last]

loop == <<ssidFilter, nlmFilter, wlan, nets, answers, clock, polled, tick, handle, quit, lpc,
          queue, lastHere, took>>

\* logical_net_filter_match: a list not given matches, a service that does not
\* answer matches nothing.
WlanFilterMatch == ssidFilter = {} \/ (answers /\ ssidFilter \cap wlan # {})
NlmFilterMatch == nlmFilter = {} \/ (answers /\ nlmFilter \cap nets # {})
Match == WlanFilterMatch /\ NlmFilterMatch
Here(w, n, a) == /\ ssidFilter = {} \/ (a /\ ssidFilter \cap w # {})
                 /\ nlmFilter = {} \/ (a /\ nlmFilter \cap n # {})

\* logical_net_filter_match_rate_limited. Mutant: asked once, then never again.
AskedNetOnce == tick # 0
AskedNet == tick = clock
RateLimited(ok) ==
  /\ ok = (AskedNet \/ Match)
  /\ tick' = clock /\ polled' = TRUE

LoopInit ==
  /\ ssidFilter \in SUBSET Ssids /\ nlmFilter \in SUBSET Nets
  /\ wlan \in SUBSET Ssids /\ nets \in SUBSET Nets /\ answers \in BOOLEAN
  /\ clock = 1 /\ polled = FALSE /\ tick = 0 /\ handle = FALSE /\ quit = FALSE
  /\ lpc = "start" /\ queue = 0
  /\ lastHere = IF Match THEN 1 ELSE 0
  /\ took = [n |-> 0, at |-> 0]

SameFilters == UNCHANGED <<ssidFilter, nlmFilter>>
SameWorld == UNCHANGED <<wlan, nets, answers, clock, quit, lastHere>>
Ended == lpc' = "ended" /\ handle' = FALSE /\ queue' = 0

\* The head of the loop, and the wait of half a second at a time.
CheckNetwork ==
  /\ lpc \in {"start", "wait"}
  /\ IF Match THEN lpc' = "open" /\ UNCHANGED <<handle, queue>>
     ELSE IF quit THEN Ended
     ELSE lpc' = "wait" /\ UNCHANGED <<handle, queue>>
  /\ polled' = TRUE
  /\ SameFilters /\ SameWorld /\ UNCHANGED <<tick, took>>
\* windivert_init: an open handle is closed first.
Open(ok) ==
  /\ lpc = "open"
  /\ IF ok THEN handle' = TRUE /\ queue' = 0 /\ lpc' = "receive" ELSE Ended
  /\ polled' = TRUE
  /\ SameFilters /\ SameWorld /\ UNCHANGED <<tick, took>>
\* windivert_recv, up to the wait for the driver. Outcomes are EINTR, ENODEV
\* (rawsend_cleanup), a packet, one too large, and another error.
Receive ==
  /\ lpc = "receive"
  /\ IF quit THEN Ended /\ UNCHANGED <<tick, polled, took>>
     ELSE \E ok \in BOOLEAN :
            /\ RateLimited(ok)
            /\ IF ~ok THEN handle' = FALSE /\ queue' = 0 /\ lpc' = "start" /\ UNCHANGED took
               ELSE IF queue > 0
                    THEN /\ queue' = queue - 1 /\ took' = [n |-> took.n + 1, at |-> clock]
                         /\ UNCHANGED <<handle, lpc>>
                    ELSE lpc' = "pending" /\ UNCHANGED <<handle, queue, took>>
  /\ SameFilters /\ SameWorld
\* A packet that is too large, or another error, at once or after the wait.
AskedAgain == IF lpc = "receive" THEN ~quit /\ RateLimited(TRUE) ELSE UNCHANGED <<tick, polled>>
TooLarge ==
  /\ lpc \in {"receive", "pending"} /\ queue > 0
  /\ AskedAgain
  /\ queue' = queue - 1 /\ lpc' = "receive"
  /\ SameFilters /\ SameWorld /\ UNCHANGED <<handle, took>>
ReceiveFails ==
  /\ lpc \in {"receive", "pending"}
  /\ AskedAgain
  /\ Ended
  /\ SameFilters /\ SameWorld /\ UNCHANGED took
\* The wait of fifty milliseconds ends with a packet, or asks again.
Woken ==
  /\ lpc = "pending" /\ queue > 0
  /\ queue' = queue - 1 /\ took' = [n |-> took.n + 1, at |-> clock]
  /\ lpc' = "receive"
  /\ SameFilters /\ SameWorld /\ UNCHANGED <<tick, polled, handle>>
Poll ==
  /\ lpc = "pending" /\ queue = 0
  /\ IF quit THEN Ended /\ UNCHANGED <<tick, polled>>
     ELSE \E ok \in BOOLEAN :
            /\ RateLimited(ok)
            /\ IF ok THEN UNCHANGED <<handle, queue, lpc>>
               ELSE handle' = FALSE /\ queue' = 0 /\ lpc' = "start"
  /\ SameFilters /\ SameWorld /\ UNCHANGED took

\* The world: networks come and go, packets are captured while the handle is
\* open, the user ends the program. A second is longer than any of the waits,
\* so the loop comes round in each.
Networks(w, n, a) ==
  /\ wlan' = w /\ nets' = n /\ answers' = a
  /\ <<w, n, a>> # <<wlan, nets, answers>>
  /\ lastHere' = IF Here(w, n, a) THEN clock ELSE lastHere
  /\ SameFilters /\ UNCHANGED <<clock, polled, tick, handle, quit, lpc, queue, took>>
Second ==
  /\ clock < MaxClock /\ polled
  /\ clock' = clock + 1 /\ polled' = (lpc = "ended")
  /\ lastHere' = IF Match THEN clock + 1 ELSE lastHere
  /\ SameFilters /\ UNCHANGED <<wlan, nets, answers, tick, handle, quit, lpc, queue, took>>
Arrives ==
  /\ handle /\ queue + took.n < MaxPackets
  /\ queue' = queue + 1
  /\ SameFilters /\ SameWorld /\ UNCHANGED <<polled, tick, handle, lpc, took>>
Quit ==
  /\ ~quit /\ quit' = TRUE
  /\ SameFilters /\ UNCHANGED <<wlan, nets, answers, clock, polled, tick, handle, lpc, queue, lastHere, took>>

LoopNext ==
  \/ CheckNetwork \/ (\E ok \in BOOLEAN : Open(ok)) \/ Receive \/ TooLarge \/ ReceiveFails
  \/ Woken \/ Poll \/ Second \/ Arrives \/ Quit
  \/ \E w \in SUBSET Ssids, n \in SUBSET Nets, a \in BOOLEAN : Networks(w, n, a)

-----------------------------------------------------------------------------
\* Traffic of other networks is left alone: a packet is taken at most one
\* second after the last in which a network of the filters was there, and the
\* driver is not held open longer (logical_net_filter_match_rate_limited,
\* darkmagic.c:1420; windivert_recv_filter, darkmagic.c:1491).
OnlyOnNetwork ==
  /\ took.at <= lastHere + 1
  /\ handle /\ polled => clock <= lastHere + 1
=============================================================================
