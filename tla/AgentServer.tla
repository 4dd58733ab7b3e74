---------------------------- MODULE AgentServer ----------------------------
(***************************************************************************)
(* daemon.py AgentServer in its default mode: one task per connection of   *)
(* an SSH client, reading the registry the control server fills.           *)
(***************************************************************************)
EXTENDS KeyRegistry, Authorizer

CONSTANT SshClients

VARIABLES
    apc,      \* where each connection's task is suspended
    ahasCtx,  \* handle_client's _conn_ctx is not None
    asked,    \* the blob of the last sign request
    held,     \* the private key _handle_sign_request took from the registry
    areply    \* the type of the last response

agentVars == <<apc, ahasCtx, asked, held, areply>>

AgentTypeOK ==
    /\ apc \in [SshClients -> {"closed", "idle", "prompt"}]
    /\ ahasCtx \in [SshClients -> BOOLEAN]
    /\ asked \in [SshClients -> MaybeKey]
    /\ held \in [SshClients -> MaybeKey]
    /\ areply \in [SshClients -> {"none", "failure", "identities", "signature"}]

AgentInit ==
    /\ apc = [a \in SshClients |-> "closed"]
    /\ ahasCtx = [a \in SshClients |-> FALSE]
    /\ asked = [a \in SshClients |-> NoKey]
    /\ held = [a \in SshClients |-> NoKey]
    /\ areply = [a \in SshClients |-> "none"]

\* The task waits for the next message, having written a response of type r;
\* k is the blob and p the private key of the request it answers.
Answer(a, r, k, p) ==
    /\ apc' = [apc EXCEPT ![a] = "idle"]
    /\ asked' = [asked EXCEPT ![a] = k]
    /\ held' = [held EXCEPT ![a] = p]
    /\ areply' = [areply EXCEPT ![a] = r]

Refuse(a) == Answer(a, "failure", NoKey, NoKey)

Connect(a) ==
    /\ apc[a] = "closed"
    /\ \E b \in BOOLEAN : ahasCtx' = [ahasCtx EXCEPT ![a] = b]
    /\ apc' = [apc EXCEPT ![a] = "idle"]
    /\ UNCHANGED <<registryVars, asked, held, areply>>

Disconnect(a) ==
    /\ apc[a] = "idle"
    /\ apc' = [apc EXCEPT ![a] = "closed"]
    /\ ahasCtx' = [ahasCtx EXCEPT ![a] = FALSE]
    /\ asked' = [asked EXCEPT ![a] = NoKey]
    /\ held' = [held EXCEPT ![a] = NoKey]
    /\ areply' = [areply EXCEPT ![a] = "none"]
    /\ UNCHANGED registryVars

RequestIdentities(a) ==
    /\ apc[a] = "idle"
    /\ Answer(a, "identities", NoKey, NoKey)
    /\ UNCHANGED <<registryVars, ahasCtx>>

\* Any other message type, and a sign request that does not parse.
Unsupported(a) ==
    /\ apc[a] = "idle"
    /\ Refuse(a)
    /\ UNCHANGED <<registryVars, ahasCtx>>

\* Mutant: a key of any type signs.
SignAnyType(a, k, p) == Answer(a, "signature", k, p)

\* sign_data with the private key taken before, whatever the registry holds.
Sign(a, k, p) ==
    \/ p \in Unsignable /\ Refuse(a)
    \/ p \notin Unsignable /\ Answer(a, "signature", k, p)

SignRequest(a) ==
    /\ apc[a] = "idle"
    /\ \E k \in Keys :
          LET p == privateKeys[k]
          IN  \/ p = NoKey /\ Refuse(a)
              \/ /\ p # NoKey
                 /\ \/ ~ahasCtx[a] \/ AnswersAtOnce(TRUE)
                 /\ Sign(a, k, p)
              \/ /\ p # NoKey /\ ahasCtx[a] /\ AnswersAtOnce(FALSE)
                 /\ Refuse(a)
              \/ /\ p # NoKey /\ ahasCtx[a] /\ Prompts
                 /\ apc' = [apc EXCEPT ![a] = "prompt"]
                 /\ asked' = [asked EXCEPT ![a] = k]
                 /\ held' = [held EXCEPT ![a] = p]
                 /\ areply' = [areply EXCEPT ![a] = "none"]
    /\ UNCHANGED <<registryVars, ahasCtx>>

SignPromptAnswered(a) ==
    /\ apc[a] = "prompt"
    /\ Sign(a, asked[a], held[a]) \/ Refuse(a)
    /\ UNCHANGED <<registryVars, ahasCtx>>

AgentNext ==
    \E a \in SshClients :
        \/ Connect(a) \/ Disconnect(a)
        \/ RequestIdentities(a) \/ Unsupported(a)
        \/ SignRequest(a) \/ SignPromptAnswered(a)
=============================================================================
