------------------------------- MODULE Policy -------------------------------
(***************************************************************************)
(* Who may run what, where: packages/authz (roles, the risk of a command,  *)
(* the policy) and the rules a runbook carries in packages/runbooks, as    *)
(* the run, creation and schedule handlers of the API consult them.  No    *)
(* state.                                                                  *)
(*                                                                         *)
(* A runbook's definition is a record of what those rules read:            *)
(* [risk, roles, envs, approval, params, tokens], where risk is its level  *)
(* as it was spelled, envs its allowed environments ({} for all), approval *)
(* the environment whose runs need an approval ("no" for none, "*" for     *)
(* every one), params its declared parameters and tokens the names its     *)
(* command refers to.                                                      *)
(***************************************************************************)
EXTENDS Naturals, FiniteSets

Roles == {"owner", "admin", "senior_engineer", "junior_engineer", "auditor"}

Risks == {"low", "medium", "high", "critical"}

Environments == {"", "*", "development", "staging", "production"}

\* strings.ToLower of a risk; one spelling stands for all that are not lower case.
ToLower(risk) ==
    CASE risk = "Low" -> "low"
      [] risk = "Medium" -> "medium"
      [] risk = "High" -> "high"
      [] risk = "Critical" -> "critical"
      [] OTHER -> risk

\* Any spelling of a level will do, but every rule below compares the risk as it is spelled.
validRisk(risk) == ToLower(risk) \in Risks

IsSenior(role) == role \in {"owner", "admin", "senior_engineer"}

(***************************************************************************)
(* The first of the three lists of ClassifyRisk with a word of the command *)
(* decides; words is the set of lists the command has a word of.           *)
(***************************************************************************)
ClassifyRisk(words) ==
    CASE "dangerous" \in words -> "critical"
      [] "dangerous" \notin words /\ "highRisk" \in words -> "high"
      [] words \cap {"dangerous", "highRisk"} = {} /\ "mediumRisk" \in words -> "medium"
      [] OTHER -> "low"

(***************************************************************************)
(* The refusals that a raw command and a runbook have in common, in the    *)
(* order of the code; the order only chooses the message.                  *)
(***************************************************************************)
CheckRunbookExecution(role, env, risk, reason) ==
    /\ role # "auditor"
    /\ risk = "critical" => role \in {"owner", "admin"}
    /\ risk = "high" => IsSenior(role)
    /\ env = "production" => reason /\ IsSenior(role)

CheckExecution(role, env, risk, reason) ==
    /\ CheckRunbookExecution(role, env, risk, reason)
    /\ IsSenior(role)

\* An empty list of environments allows every one.
EnvironmentAllowed(def, env) ==
    \/ def.envs = {}
    \/ env \in def.envs
    \/ "*" \in def.envs

\* The runbook's own approval rule.
NeedsApproval(def, env) == def.approval \in {env, "*"}

\* The rule of the run handler: the runbook's, risk in production, and juniors.
RunNeedsApproval(def, role, env) ==
    \/ NeedsApproval(def, env)
    \/ env = "production" /\ def.risk \in {"high", "critical"}
    \/ def.risk = "high" /\ ~IsSenior(role)

(***************************************************************************)
(* Parameters.  A declared parameter is [name, type, allowed, default,     *)
(* required]; allowed is {} when any value of the type will do, and ""     *)
(* stands for no default and for an empty value.  tokens of a definition   *)
(* are the names its command refers to.  ValidValues says which values of  *)
(* the model a type accepts: as in the code, a lone point is a number.     *)
(* inputs is what a caller sent, a function from names to values.          *)
(***************************************************************************)
AnyValue == {"", "7", "7.5", ".", "-", "true", "word"}

ValidValues == [string  |-> AnyValue,
                enum    |-> AnyValue,
                integer |-> {"7"},
                number  |-> {"7", "7.5", "."},
                boolean |-> {"true"}]

Accepts(p, value) ==
    /\ value \in ValidValues[p.type]
    /\ p.allowed = {} \/ value \in p.allowed

\* The value a parameter is rendered with: what the caller sent or the default.
Resolved(p, inputs) == IF p.name \in DOMAIN inputs THEN inputs[p.name] ELSE p.default

ValidateParams(def, inputs) ==
    LET Given(t) == \/ t \in DOMAIN inputs
                    \/ \E p \in def.params : p.name = t /\ p.default # ""
    IN  /\ DOMAIN inputs \subseteq {p.name : p \in def.params}
        /\ \A p \in def.params :
              /\ p.name \in DOMAIN inputs => Accepts(p, inputs[p.name])
              /\ p.required => Resolved(p, inputs) # ""
        /\ \A t \in def.tokens : Given(t)

\* What Validate asks of a definition before it is stored from YAML.
Validate(def) ==
    /\ def.risk \in Risks
    /\ \A p, q \in def.params : p.name = q.name => p = q
    /\ \A p \in def.params :
          /\ p.allowed # {} => p.type = "enum"
          /\ p.default # "" => Accepts(p, p.default)

\* What the other form of a request, its fields in JSON, can make a definition of: the risk
\* is stored as it was sent, and there are no parameters and no approval rule.
FromFields(def) ==
    /\ validRisk(def.risk)
    /\ \E env \in Environments : def.envs = {env}
    /\ def.params = {} /\ def.approval = "no"

\* What may come to be stored.
Storable(def) == Validate(def) \/ FromFields(def)
=============================================================================
