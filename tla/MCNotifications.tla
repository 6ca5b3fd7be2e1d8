--------------------------- MODULE MCNotifications ---------------------------
(* Instances of Notifications for TLC. *)
EXTENDS Notifications

\* A comment on u1's document, and a document shared twice with u1's group.
MCRecords == {"comment", "access"}

MCKind == [comment |-> "comment", access |-> "group"]

MCCalls == {"comment", "share", "again"}

MCRef == [comment |-> "comment", share |-> "access", again |-> "access"]

MCRecipients == [c \in MCCalls |-> {"u1"}]

=============================================================================
