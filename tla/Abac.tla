-------------------------------- MODULE Abac --------------------------------
(***************************************************************************)
(* The ABAC engine (src/abac.cc): rules are only ever added, Check goes    *)
(* through all of them.  The pattern of a rule is a record: how it matches *)
(* ("any" for "*", "none" for the empty pattern, "exact", "prefix",        *)
(* "suffix") and the text it matches with.                                 *)
(***************************************************************************)
EXTENDS Path

CONSTANTS
    Subjects,    \* layer names
    Texts,       \* resources asked for, and the texts of the patterns
    MaxRules     \* bound: rules in the engine

(* os.Open and os.Getenv stand for the actions on paths and the others.    *)
Actions == {"os.Open", "os.Getenv"}
PathAction(action) == action = "os.Open"

VARIABLES
    rules_,
    request,    \* the last request, or NoRequest
    granted     \* what Check said to it

abacVars == <<rules_, request, granted>>

Star == [how |-> "any", text |-> <<>>]
Word(s) == [how |-> "exact", text |-> s]
Patterns == {Star, [how |-> "none", text |-> <<>>]} \cup
            [how : {"exact", "prefix", "suffix"}, text : Texts]
Rules == [subject : {Star} \cup {Word(s) : s \in Subjects},
          action : {Star, Word("os.Open")},
          resource : Patterns,
          effect : {"allow", "deny"}]

NoRequest == <<>>

AbacInit == rules_ = <<>> /\ request = NoRequest /\ granted = FALSE

(* Allow and Deny.                                                         *)
AddRule(r) ==
    /\ Len(rules_) < MaxRules
    /\ rules_' = Append(rules_, r)
    /\ request' = NoRequest /\ granted' = FALSE

(* CanonicalPath of each of them, worked out once.                         *)
Canonical == [text \in Texts |-> CanonicalPath(text)]

(* Mutant: a prefix of a path is compared as text.                         *)
MatchPrefixText(text, val, path) == IsPrefix(text, val)
MatchPrefix(text, val, path) ==
    LET pc == Canonical[text]
    IN IF path THEN PrefixBound(IF pc = <<>> THEN text ELSE pc, val)
               ELSE IsPrefix(text, val)

Match(pat, val, path) ==
    \/ pat.how = "any"
    \/ pat.how = "prefix" /\ MatchPrefix(pat.text, val, path)
    \/ pat.how = "suffix" /\ IsSuffix(pat.text, val)
    \/ pat.how = "exact" /\ path /\ Canonical[pat.text] # <<>> /\ Canonical[pat.text] = val
    \/ pat.how = "exact" /\ ~path /\ pat.text = val

Check(subject, action, resource) ==
    LET path == PathAction(action)
        res == IF path THEN Canonical[resource] ELSE resource
        matching == {i \in 1 .. Len(rules_) :
                        /\ Match(rules_[i].subject, subject, FALSE)
                        /\ Match(rules_[i].action, action, FALSE)
                        /\ Match(rules_[i].resource, res, path)}
    IN /\ path => res # <<>>
       /\ {rules_[i].effect : i \in matching} = {"allow"}

Ask(subject, action, resource) ==
    /\ request = NoRequest
    /\ request' = [subject |-> subject, action |-> action, resource |-> resource]
    /\ granted' = Check(subject, action, resource)
    /\ UNCHANGED rules_

AbacNext ==
    \/ \E r \in Rules : AddRule(r)
    \/ \E subject \in Subjects, action \in Actions, resource \in Texts :
          Ask(subject, action, resource)

-----------------------------------------------------------------------------
(* What a pattern is meant to cover: a resource of a path action by where  *)
(* it is, any other by its text.                                           *)
Covers(pat, action, resource) ==
    CASE pat.how = "any"  -> TRUE
      [] pat.how = "none" -> FALSE
      [] pat.how = "suffix" ->
            IsSuffix(pat.text, IF PathAction(action) THEN Canonical[resource] ELSE resource)
      [] pat.how = "prefix" ->
            IF PathAction(action) THEN HasPlace(pat.text) /\ Within(resource, pat.text)
                                  ELSE IsPrefix(pat.text, resource)
      [] pat.how = "exact" ->
            IF PathAction(action) THEN HasPlace(pat.text) /\ Place(resource) = Place(pat.text)
                                  ELSE resource = pat.text

Concerns(r, req) ==
    /\ r.subject \in {Star, Word(req.subject)}
    /\ r.action \in {Star, Word(req.action)}
    /\ Covers(r.resource, req.action, req.resource)

(* The texts keep to the length of a path and none is a name spelt like a  *)
(* drive, which CanonicalPath takes for the drive.                         *)
PlainlySpelt ==
    \A t \in Texts : t \in Seq(Characters) /\ ~(Len(t) > MaxPath) /\ ~SpeltLikeDrive(t)

(* Whatever order the rules were added in and however the paths in rules   *)
(* and requests are spelt, a request is granted exactly when some Allow    *)
(* concerns the place it means and no Deny does: a Deny of a directory     *)
(* covers all that is in it and an Allow nothing outside it.               *)
RulesGovernPlaces ==
    LET Says(effect) == \E i \in 1 .. Len(rules_) :
            rules_[i].effect = effect /\ Concerns(rules_[i], request)
        real == PathAction(request.action) => HasPlace(request.resource)
    IN request # NoRequest =>
          (granted <=> (real /\ Says("allow") /\ ~Says("deny")))
=============================================================================
