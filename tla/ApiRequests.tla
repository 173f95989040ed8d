----------------------------- MODULE ApiRequests -----------------------------
(***************************************************************************)
(* The requests the API handles at a time: its processes await the         *)
(* database and Redis between their steps, so that the steps of several    *)
(* requests interleave.                                                    *)
(***************************************************************************)
EXTENDS NoValue

CONSTANT Requests
=============================================================================
