---------------------------------- MODULE Mail ----------------------------------
(* What the notification outbox promises to the code that queues notifications: a      *)
(* queued one is delivered, perhaps more than once, and closed, as sent only if it was *)
(* delivered, and nothing happens to it afterwards.  Outbox implements it, Fulfillment *)
(* is built on it.                                                                     *)
EXTENDS Integers

CONSTANT Notes   \* manual_order_notifications

VARIABLES
  status,   \* status of each row, none before it exists
  copies    \* how often each notification reached its customer

mail == <<status, copies>>

MailInit ==
  /\ status = [n \in Notes |-> "none"]
  /\ copies = [n \in Notes |-> 0]

Queue(n) ==
  /\ status[n] = "none"
  /\ status' = [status EXCEPT ![n] = "pending"]
  /\ UNCHANGED copies

Copy(n) ==
  /\ status[n] = "pending"
  /\ copies' = [copies EXCEPT ![n] = @ + 1]
  /\ UNCHANGED status

\* The batch that is committed closes any number of rows.
Close ==
  /\ \A n \in Notes :
       \/ status'[n] = status[n]
       \/ status[n] = "pending" /\ status'[n] = "sent" /\ copies[n] > 0
       \/ status[n] = "pending" /\ status'[n] = "failed"
  /\ status' \in [Notes -> {"none", "pending", "sent", "failed"}]
  /\ UNCHANGED copies

MailNext == Close \/ \E n \in Notes : Queue(n) \/ Copy(n)

MailSpec == MailInit /\ [][MailNext]_mail

===============================================================================
