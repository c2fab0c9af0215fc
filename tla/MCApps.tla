------------------------------- MODULE MCApps -------------------------------
(* HidraNet's hidden services and the applications on them: introduction     *)
(* point, sites, mail, the relay with its forum rules, and chat. Each        *)
(* behaviour is of the one part `which` names; the others stay as they began.*)
EXTENDS IntroPoint, SiteManager, HidraMail, RelayBroker, ForumRules, HidraChat

CONSTANT Parts
VARIABLE which
-----------------------------------------------------------------------------
(* IntroPoint: one session has two pieces, an order to keep, the other one.   *)
MCPieces == [c \in HsClients |-> IF c = "a" THEN 2 ELSE 1]

(* RelayBroker: a filter of one topic, and one that overlaps it.             *)
MCFilters == {{"x"}, {"x", "y"}}

Init ==
  /\ which \in Parts
  /\ HsInit /\ SmInit /\ MlInit /\ RbInit /\ FrInit /\ ChInit

Others(part) ==
  /\ UNCHANGED which
  /\ part # "introduction" => UNCHANGED hsVars
  /\ part # "sites" => UNCHANGED smVars
  /\ part # "mail" => UNCHANGED mlVars
  /\ part # "relay" => UNCHANGED rbVars
  /\ part # "forum" => UNCHANGED frVars
  /\ part # "chat" => UNCHANGED chVars

IntroductionStep == which = "introduction" /\ HsNext /\ Others("introduction")
SitesStep == which = "sites" /\ SmNext /\ Others("sites")
MailStep == which = "mail" /\ MlNext /\ Others("mail")
RelayStep == which = "relay" /\ RbNext /\ Others("relay")
ForumStep == which = "forum" /\ FrNext /\ Others("forum")
ChatStep == which = "chat" /\ ChNext /\ Others("chat")

Next == IntroductionStep \/ SitesStep \/ MailStep \/ RelayStep \/ ForumStep \/ ChatStep

vars == <<which, hsVars, smVars, mlVars, rbVars, frVars, chVars>>
Spec == Init /\ [][Next]_vars

\* A bound: a second SUBSCRIBE and failed writes come before the first restart.
FewFaultsOnceStopped ==
  starts > 0 \/ store = "taken" => attempts = 0 /\ \A c \in RbClients : subscribes[c] <= 1
=============================================================================
