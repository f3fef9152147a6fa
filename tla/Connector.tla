------------------------------ MODULE Connector ------------------------------
(***************************************************************************)
(* What a supervised connector promises whoever started it: until Stop a   *)
(* cloudflared process may come and go, at most one at a time; after Stop  *)
(* no process is started any more, and the one that runs goes away.        *)
(***************************************************************************)
VARIABLES
  life,      \* "new", "running" since Start, "stopped" since Stop
  process    \* a cloudflared process exists

conn == <<life, process>>

Init == life = "new" /\ process = FALSE

Start == life = "new" /\ life' = "running" /\ UNCHANGED process

Spawn == life = "running" /\ ~process /\ process' = TRUE /\ UNCHANGED life

Exit == process /\ process' = FALSE /\ UNCHANGED life

Stop == life = "running" /\ life' = "stopped" /\ UNCHANGED process

Next == Start \/ Spawn \/ Exit \/ Stop

Killed == life = "stopped" /\ Exit

Steps == Init /\ [][Next]_conn

Spec == Steps /\ WF_conn(Killed)
=============================================================================
