---------------------------- MODULE MCPrimitives ----------------------------
(* Model-checking instance of the parts that know nothing of each other:   *)
(* an EventStream with two iterators, one request (ResponseStream), the    *)
(* file mutation queue, and two processes that share their credentials.    *)
(* "part" says which of them moves.                                        *)
EXTENDS MCFileMutationQueue, MCCredentials, EventStream, ResponseStream

VARIABLE part

allVars == <<part, queueVars, vars, responseVars, authVars>>

PartsInit ==
  /\ part \in {"stream", "response", "file", "auth"}
  /\ FileInit /\ Init /\ ResponseInit /\ AuthInit
  /\ part # "file" => path = [o \in Ops |-> a] /\ present = {}
  /\ part # "response" => proxy
  /\ part # "auth" => ~exists

StreamStep(step) == part = "stream" /\ step /\ UNCHANGED <<part, queueVars, responseVars, authVars>>
ResponseStep(step) == part = "response" /\ step /\ UNCHANGED <<part, queueVars, vars, authVars>>
FileStep(step) == part = "file" /\ step /\ UNCHANGED <<part, vars, responseVars, authVars>>
AuthStep(step) == part = "auth" /\ step /\ UNCHANGED <<part, vars, responseVars, queueVars>>

PartsNext ==
  \/ StreamStep(Next)
  \/ ResponseStep(ResponseNext)
  \/ FileStep(FileNext)
  \/ AuthStep(AuthNext)

\* The fairness of each part, while it is the one that moves.
PartsSpec ==
  /\ PartsInit /\ [][PartsNext]_allVars
  /\ \A c \in Consumers : WF_allVars(StreamStep(ConsumerStep(c)))
  /\ WF_allVars(ResponseStep(Request \/ HangUp))
  /\ WF_allVars(ResponseStep(Copy))
  /\ WF_allVars(ResponseStep(Consume))
  /\ \A o \in Ops : WF_allVars(FileStep(Progress(o)))

\* A request always comes to an answer or an error, also when its setup fails,
\* unless a proxy hangs up.
RequestSettles == part = "response" => <>Answered
=============================================================================
