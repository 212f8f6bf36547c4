---------------------------- MODULE OrderLosses ----------------------------
(***************************************************************************)
(* OrderNotifications with a history of how orders can fall between two    *)
(* polls: section 11 of the README shows that they do, here is said what   *)
(* it takes, and that nothing else loses an order.                         *)
(***************************************************************************)
EXTENDS OrderNotifications

VARIABLES
    outrun,      \* history: orders placed in a poll that outlasted the overlap
    overlooked   \* history: FBO orders in the window of a failed FBO request

historyVars == <<vars, outrun, overlooked>>

Outrun ==
    {o \in Placed : \E s \in Sessions :
        /\ Polling(s) /\ clock - session[s].at > Overlap
        /\ placed[o] >= session[s].at}
(* A poll of Ozon has just begun without them.                             *)
Overlooked ==
    {o \in Fbo \cap PollWindow : Marketplace = "OZON" /\ \E s \in Sessions :
        /\ session[s].pc = "idle" /\ session'[s].pc = "process"
        /\ o \notin session'[s].got}

HInit == Init /\ outrun = {} /\ overlooked = {}
HNext ==
    /\ Next
    /\ outrun' = outrun \cup Outrun' /\ overlooked' = overlooked \cup Overlooked
HSpec == HInit /\ [][HNext]_historyVars

(* An order that the poll is responsible for is stored, or the next poll   *)
(* asks for it - unless it was placed while a poll was open for longer     *)
(* than windows overlap, or it is an FBO order and the FBO request of Ozon *)
(* failed.  Runs that overlap, die, fail to save or lose the recovery      *)
(* request of WB lose nothing.                                             *)
OnlyTheseAreLost ==
    \A o \in Polled \cap (Placed \ Stored) : o \in PollWindow \cup outrun \cup overlooked
=============================================================================
