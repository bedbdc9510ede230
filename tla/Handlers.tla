------------------------------ MODULE Handlers ------------------------------
(***************************************************************************)
(* The handlers of HTTP requests: one process runs them all, and they      *)
(* interleave at every await.  A handler is idle until its request comes,  *)
(* then at a named place between two awaits, and done once it has answered *)
(* or failed.  Each is served once, and a row that it creates bears its    *)
(* name.                                                                   *)
(***************************************************************************)
CONSTANT Requests      \* HTTP requests

VARIABLE pc            \* where a request's handler is

At(r, places)  == pc[r] \in places
Running(r)     == ~At(r, {"idle", "done"})
Goto(r, place) == pc' = [pc EXCEPT ![r] = place]
Answer(r)      == Goto(r, "done")
=============================================================================
