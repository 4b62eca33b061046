--------------------------- MODULE MCMailboxSync ---------------------------
(* Constants of the instances of MailboxSync that TLC checks. *)
EXTENDS MailboxSync

CONSTANTS w1, w2

\* Message 1 is in the inbox, 2 in the sent folder, and 3 in the inbox again.
MCSent     == {2} \intersect Mail
MCInvites  == {1, 2} \intersect Mail
MCEmbedded == {2} \intersect Mail
=============================================================================
