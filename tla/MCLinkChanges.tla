---------------------------- MODULE MCLinkChanges ----------------------------
(* LinkChanges with three calls, the link that is there at first and room for
   three more, and two codes: two creations collide on a code, and update and remove
   race on the old link. *)
EXTENDS LinkChanges
=============================================================================
