------------------------------ MODULE Announcements ------------------------------
(* What broadcast campaigns promise to the administrator who confirms them: one is     *)
(* announced at a time, its audience hears it once at most and nobody else does, one   *)
(* that is over stays over, and one that is called off falls silent after a batch.     *)
(* BroadcastCampaign implements it.                                                    *)
EXTENDS Integers

CONSTANTS Campaigns, Users, Audience, BatchSize

VARIABLES
  phase,    \* of each campaign
  copies,   \* how often each user heard each campaign
  late      \* calls for a campaign that was called off

announcements == <<phase, copies, late>>

AnnouncementsInit ==
  /\ phase = [c \in Campaigns |-> "none"]
  /\ copies = [r \in Campaigns \X Users |-> 0]
  /\ late = [c \in Campaigns |-> 0]

\* A campaign goes from one of some phases to another.
Goes(c, from, to) ==
  /\ phase[c] \in from
  /\ phase' = [phase EXCEPT ![c] = to]
  /\ UNCHANGED <<copies, late>>

Draft(c) == Goes(c, {"none"}, "draft")

Announce(c) ==
  /\ \A d \in Campaigns : phase[d] # "active"
  /\ Goes(c, {"draft"}, "active")

Finish(c) == Goes(c, {"active"}, "completed")

CallOff(c) == Goes(c, {"draft", "active"}, "cancelled")

\* One of the audience is called, in vain or not.
Call(c, u) ==
  /\ u \in Audience[c]
  /\ \/ phase[c] = "active" /\ UNCHANGED late
     \/ /\ phase[c] = "cancelled" /\ late[c] < BatchSize
        /\ late' = [late EXCEPT ![c] = @ + 1]
  /\ \/ copies[<<c, u>>] = 0 /\ copies' = [copies EXCEPT ![<<c, u>>] = 1]
     \/ UNCHANGED copies
  /\ UNCHANGED phase

AnnouncementsNext ==
  \E c \in Campaigns :
    \/ Draft(c) \/ Announce(c) \/ Finish(c) \/ CallOff(c)
    \/ \E u \in Users : Call(c, u)

AnnouncementsSpec == AnnouncementsInit /\ [][AnnouncementsNext]_announcements

===============================================================================
