------------------------------ MODULE Services ------------------------------
(***************************************************************************)
(* The server-side state clients hold handles to: credentials, search      *)
(* contexts, search jobs, HEC channels and written documents, with the     *)
(* rate limiter in front, under one clock, one periodic sweep              *)
(* (backend/infrastructure/housekeeping.py) and one reset                  *)
(* (backend/application/dev/commands.py).  Each component keeps its own    *)
(* collections and calls none of the others; a behaviour follows the       *)
(* clients of one of them.                                                 *)
(***************************************************************************)
EXTENDS Credentials, SearchContexts, SearchJobs, HecAcks, RateLimit, Documents

VARIABLE mount  \* the component whose clients this behaviour follows

Mounts == {"sessions", "tokens", "bearers", "contexts", "jobs", "hec", "limiter", "documents"}

vars == <<now, mount, credVars, contextVars, jobVars, ackVars, rateVars, docVars>>

Init ==
  /\ ClockInit /\ mount \in Mounts
  /\ CredInit /\ ContextsInit /\ JobsInit /\ AcksInit /\ RateInit /\ DocsInit

Others(m) ==
  /\ m \notin {"sessions", "tokens", "bearers"} => UNCHANGED credVars
  /\ m # "contexts" => UNCHANGED contextVars
  /\ m # "jobs" => UNCHANGED jobVars
  /\ m # "hec" => UNCHANGED ackVars
  /\ m # "limiter" => UNCHANGED rateVars
  /\ m # "documents" => UNCHANGED docVars
  /\ UNCHANGED <<now, mount>>

Client ==
  /\ \/ mount = "sessions" /\ SessionsNext
     \/ mount = "tokens" /\ TokensNext
     \/ mount = "bearers" /\ BearersNext
     \/ mount = "contexts" /\ ContextsNext
     \/ mount = "jobs" /\ JobsNext
     \/ mount = "hec" /\ AcksNext
     \/ mount = "limiter" /\ RateNext
     \/ mount = "documents" /\ DocsNext
  /\ Others(mount)

Tick ==
  /\ now < MaxTime /\ now' = now + 1 /\ mount # "documents" /\ JobsTick
  /\ UNCHANGED <<mount, credVars, contextVars, ackVars, rateVars, docVars>>

\* Every lifetime at once.
Sweep ==
  /\ SweepCredentials /\ ReapContexts /\ ReapJobs /\ ReapIdleChannels
  /\ UNCHANGED <<now, mount, rateVars, docVars>>

\* The sweep, what is carried over, the new data set, then the acknowledgement
\* state; the limiter's settings are left alone on purpose.
Reset ==
  /\ ResetCredentials /\ ResetContexts /\ ResetJobs /\ ResetAckState /\ ResetDocuments
  /\ UNCHANGED <<now, mount, rateVars>>

Next == Client \/ Tick \/ Sweep \/ Reset

Spec == Init /\ [][Next]_vars

-----------------------------------------------------------------------------

\* The shape of every component's state: the invariant the others lean on,
\* that a channel, its counter and its open numbers come and go together and
\* that a paused job knows since when (splunk_hec.py, search_job.py).
TypeOK ==
  /\ now \in Times /\ mount \in Mounts
  /\ CredTypeOK /\ ContextsTypeOK /\ JobsTypeOK /\ AcksTypeOK /\ RateTypeOK /\ DocsTypeOK

Verdicts == <<CredAccepted, ContextsAccepted, JobsAccepted>>

\* A sweep frees memory and never changes an answer: what was accepted before
\* it is accepted after it, at every edge of every lifetime
\* (housekeeping.py 30-32).  HEC channels are not part of this: nothing looks
\* at their age but the sweep.
SweepChangesNoVerdict == [][Sweep => Verdicts' = Verdicts]_vars

\* What a client was given stays usable for as long as it was promised, over
\* any order of uses, sweeps and resets (splunk_auth.py, search_job.py,
\* es_search/queries.py, dev/commands.py "every such client 401").
UsedStaysUsable == CredStaysUsable /\ ContextsStayUsable /\ JobsStayUsable

=============================================================================
