----------------------------- MODULE Authorizer -----------------------------
(***************************************************************************)
(* The authorizer both servers share, as the servers see it: one that      *)
(* grants everything (require_polkit = false), one that refuses everything *)
(* (the system bus is unavailable), or polkit behind CachingAuthorizer,    *)
(* which grants at once from its cache or suspends for the user's answer.  *)
(***************************************************************************)
CONSTANT Authorizer

ASSUME AuthorizerAssumption == Authorizer \in {"allow", "deny", "polkit"}

\* create_authorizer grants everything unless require_polkit asks for polkit,
\* which macOS does not have; main_entry has read the same configuration.
RequiredAtStart == IF Authorizer = "allow" THEN BOOLEAN ELSE {TRUE}

\* Mutant: without the system bus everything is granted.
AnswersAtOnceOpen(b) == b = TRUE

\* check_authorization can return b without suspending.
AnswersAtOnce(b) == b = (Authorizer # "deny")

\* check_authorization can suspend.
Prompts == Authorizer = "polkit"
=============================================================================
