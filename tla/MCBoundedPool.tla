---------------------------- MODULE MCBoundedPool ----------------------------
(***************************************************************************)
(* Command lines for BoundedPool: every combination of the flags that      *)
(* validation looks at, with a limit below, at and above the requests.     *)
(***************************************************************************)
EXTENDS BoundedPool

Ways == { o \in [command : {"fetch", "analyse"}, auth : {"http", "ssh-key", "bad"},
                 target : BOOLEAN, file : BOOLEAN, threads : {-1, 0, 1, 2, 3},
                 requests : {1, 2, MaxRequests}, prepares : BOOLEAN,
                 hangs : {{}}] :
             /\ o.target => o.requests = 1
             /\ o.command = "analyse" => o.auth = "http" }

\* The call of request 1 may hang while there are two threads.
Hanging == { [o EXCEPT !.hangs = {1}] : o \in
                 { w \in Ways : /\ w.command = "analyse" /\ w.file /\ ~w.target
                                /\ w.prepares /\ w.threads = 2
                                /\ w.requests = MaxRequests } }

AllWays == Ways \cup Hanging

SingleTarget == { o \in Ways : o.target }
=============================================================================
