-------------------------- MODULE MCHttpClient --------------------------
(***************************************************************************)
(* Instances of HttpClient for TLC. Three requests on two workers give one *)
(* worker two, so that its semaphore, of one slot, matters.                *)
(***************************************************************************)
EXTENDS HttpClient

\* Where SIGTERM is taken care of: anywhere but between process.start() and
\* the entry in _active_worker_processes.
Covered == {"start", "await", "failed", "submit", "flush", "hung"}
Uncovered == {"track"}

=========================================================================
