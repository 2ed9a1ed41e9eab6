----------------------------- MODULE MCPtySession -----------------------------
(***************************************************************************)
(* TLC instance of PtySession: three attachments, three chunks and a        *)
(* channel of two, so that a channel fills, a stale attachment is    *)
(* followed by two newer ones, and every close races every attach.          *)
(***************************************************************************)
EXTENDS PtySession
=============================================================================
