------------------------------ MODULE Startup ------------------------------
(***************************************************************************)
(* How the broker process turns its configuration and the GenAI service    *)
(* key into what it offers and deploys: main, loadGenAICredentials, the    *)
(* plans, and the version gate of Provision.  Pure functions; "" is an     *)
(* unset value, as in the code.                                            *)
(***************************************************************************)
EXTENDS Sieve

CONSTANTS
  Years, Months, Days,  \* the numbers of the versions checked
  PlanNames             \* names of configured plans, "" among them

ASSUME DateAssumption == Years \subseteq Nat /\ Months \subseteq 1..12 /\ Days \subseteq 1..31

\* nil, or something that is pointed to.
Pointer(S) == {<<>>} \cup {<<x>> : x \in S}

VARIABLE starting \* the configuration of the process that is starting, if any
-----------------------------------------------------------------------------
(* The version gate.  A version is the sequence of its dotted parts, a     *)
(* part a number (NaN if it does not parse) and whether "-..." follows it. *)

NaN == -1
MinSafeVersion == <<<<2026, FALSE>>, <<1, FALSE>>, <<29, FALSE>> >>
Invalid == <<>>

\* The suffix is cut from the day only; elsewhere Atoi fails on it.
parseVersion(v) ==
  IF Len(v) # 3 \/ (\E i \in 1..3 : v[i][1] = NaN) \/ (\E i \in 1..2 : v[i][2])
  THEN Invalid
  ELSE <<v[1][1], v[2][1], v[3][1]>>

\* Mutant: the month decides whatever the year.
BelowMonth(v, m) ==
  v[1] < m[1] \/ v[2] < m[2] \/ (v[1] = m[1] /\ v[2] = m[2] /\ v[3] < m[3])
Below(v, m) ==
  \/ v[1] < m[1]
  \/ v[1] = m[1] /\ v[2] < m[2]
  \/ v[1] = m[1] /\ v[2] = m[2] /\ v[3] < m[3]

ValidateVersion(version, minVersion) ==
  LET min == IF minVersion = <<>> THEN MinSafeVersion ELSE minVersion
  IN /\ version # <<>>
     /\ parseVersion(version) # Invalid
     /\ parseVersion(min) # Invalid
     /\ ~Below(parseVersion(version), parseVersion(min))

\* Provision's gate; without a configured minimum there is none.
Admits(version, minVersion) == minVersion # <<>> => ValidateVersion(version, minVersion)

\* Versions that are dates, with or without a suffix, and some that are not.
Version(x) == <<<<x[1], FALSE>>, <<x[2], x[4]>>, <<x[3], x[5]>> >>
YearOnly == <<<<2026, FALSE>> >>
NoDay == <<<<2026, FALSE>>, <<2, FALSE>>, <<NaN, FALSE>> >>
Broken == {<<>>, YearOnly, NoDay}
Versions == Broken \cup {Version(x) : x \in Years \X Months \X Days \X BOOLEAN \X BOOLEAN}
Dated(v) == Len(v) = 3 /\ v[3][1] # NaN /\ ~v[2][2]
DayNumber(v) == (v[1][1] * 12 + v[2][1]) * 31 + v[3][1]

\* Under a configured minimum, Provision deploys exactly the versions that are
\* dates no earlier than it; a release's suffix ("2026.2.21-2") never changes
\* the verdict, and a minimum that does not parse lets nothing through.
GateIsDateOrder ==
  \A m \in {g.minVersion : g \in starting} \ {<<>>}, v \in Versions :
    Admits(v, m) <=> Dated(v) /\ Dated(m) /\ DayNumber(v) >= DayNumber(m)
-----------------------------------------------------------------------------
(* Plans.  A plan's vm stands for everything Provision takes from it; its  *)
(* ID is the sequence of its parts, none if it is unset.                   *)

Plan == [id: {<<>>, <<"p1">>}, name: PlanNames, vm: {1, 2}]
IdFor(name) == <<"openclaw-", name, "-plan">>
defaultPlans == <<[id |-> IdFor("developer"), name |-> "developer", vm |-> 1],
                  [id |-> IdFor("developer-plus"), name |-> "developer-plus", vm |-> 2],
                  [id |-> IdFor("team"), name |-> "team", vm |-> 3]>>

\* Mutant: IDs are not filled in.
Unnormalized(plans) == plans
normalizePlans(plans) ==
  [k \in DOMAIN plans |->
     IF plans[k].id = <<>> /\ plans[k].name # ""
     THEN [plans[k] EXCEPT !.id = IdFor(plans[k].name)] ELSE plans[k]]

\* main's choice of plans, as New leaves it in the broker's configuration.
ConfigPlans(onDemand, static) ==
  normalizePlans(IF onDemand = <<>> THEN static ELSE onDemand)
buildServicePlans(plans) == IF plans = <<>> THEN defaultPlans ELSE plans
findPlan(plans, id) ==
  LET all == IF plans = <<>> THEN defaultPlans ELSE plans
  IN Sift(all, {p \in Range(all) : p.id = id})

\* Whatever is configured (tile forms without IDs, static plans, nothing at
\* all), the catalog offers at least one plan, every named one has an ID, and
\* an ID only one plan has selects that plan when CF asks for it.
PlansOffered ==
  \A g \in starting :
    LET plans == ConfigPlans(g.onDemand, g.static)
        offer == buildServicePlans(plans)
    IN /\ offer # <<>>
       /\ g.onDemand # <<>> => Len(offer) = Len(g.onDemand)
       /\ \A k \in DOMAIN offer :
            /\ offer[k].name # "" => offer[k].id # <<>>
            /\ (\A j \in DOMAIN offer \ {k} : offer[j].id # offer[k].id)
                 => Head(findPlan(plans, offer[k].id)) = offer[k]
-----------------------------------------------------------------------------
(* GenAI credentials.  A base, a key and a model are the name of the place *)
(* they come from; a pointer, and a result that may be missing, is a       *)
(* sequence of at most one element.                                        *)

Unset(x) == {"", x}
Within(o) == IF o = "wrapped" THEN "wrapped endpoint" ELSE "top endpoint"
Endpoint(o) == [base: Unset(Within(o)), key: Unset(Within(o)), url: BOOLEAN]
Creds(o) == [base: Unset(o), key: Unset(o), model: Unset(o), endpoint: Pointer(Endpoint(o))]
Configs == [provider: {"", "tanzu_genai", "openai"}, endpoint: Unset("config"),
            apiEndpoint: Unset("config"), key: Unset("config"), model: Unset("config")]
Model(name, chat) == [name |-> name, chat |-> chat]
Advertised == {<<>>, <<Model("embed", FALSE)>>, <<Model("embed", FALSE), Model("chat", TRUE)>>}

\* The first model that chats, if there is one.
discoverChatModel(advertised) ==
  LET chat == Sift(advertised, {m \in Range(advertised) : m.chat})
  IN IF chat = <<>> THEN <<>> ELSE <<Head(chat).name>>

\* Mutant: each value falls back to the top level on its own.
CredsMixed(wrapped, top) ==
  IF wrapped = <<>> THEN top
  ELSE [wrapped[1] EXCEPT !.base = IF @ = "" THEN top.base ELSE @,
                          !.key = IF @ = "" THEN top.key ELSE @]
\* Wrapped credentials if they hold a base, a key or an endpoint.
CredsUsed(wrapped, top) ==
  IF /\ wrapped # <<>>
     /\ wrapped[1].base # "" \/ wrapped[1].key # "" \/ wrapped[1].endpoint # <<>>
  THEN wrapped[1] ELSE top

loadGenAICredentials(wrapped, top, advertised) ==
  LET creds == CredsUsed(wrapped, top)
      nested == creds.endpoint # <<>>
      base == IF creds.base = "" /\ nested THEN creds.endpoint[1].base ELSE creds.base
      key == IF creds.key = "" /\ nested THEN creds.endpoint[1].key ELSE creds.key
      found == IF creds.model = "" /\ nested /\ creds.endpoint[1].url
               THEN discoverChatModel(advertised) ELSE <<>>
  IN IF base = "" \/ key = "" THEN <<>>
     ELSE <<[base |-> base, key |-> key,
             model |-> IF found # <<>> THEN found[1] ELSE creds.model]>>

\* main up to the broker's configuration; nothing if the process ends.
Configure(cfg, loaded) ==
  IF cfg.provider # "tanzu_genai" THEN <<cfg>>
  ELSE IF loaded = <<>> THEN <<>>
  ELSE <<[cfg EXCEPT !.endpoint = loaded[1].base, !.key = loaded[1].key,
                     !.model = IF @ = "" THEN loaded[1].model ELSE @]>>

\* The template's llm block; nothing if it has neither an endpoint nor a key.
LLMBlock(c) ==
  IF c.provider = "" \/ (c.endpoint = "" /\ c.apiEndpoint = "" /\ c.key = "") THEN <<>>
  ELSE <<[endpoint |-> IF c.endpoint # "" THEN c.endpoint ELSE c.apiEndpoint,
          key |-> c.key, model |-> c.model]>>

CredsAt(g, o) == IF o = "wrapped" THEN g.wrapped[1] ELSE g.top
FromPlace(creds, o, base, key) ==
  /\ {base, key} \subseteq {o, Within(o)}
  /\ base = Within(o) => creds.base = ""
  /\ key = Within(o) => creds.key = ""

\* A broker that starts with the marketplace's GenAI service gives every agent
\* an endpoint and a key, both from the wrapped credentials of the service key or
\* both from those at its top, and neither from the configuration.  Each of the
\* two is the endpoint's below those credentials just where they lack it
\* themselves ("Fall back to endpoint.api_base/api_key (multi-format binding)"),
\* so that one may be theirs and the other the endpoint's.  The operator's model
\* wins, and a model is never one that cannot chat.
OneSetOfCredentials ==
  \A g \in starting :
    LET loaded == loadGenAICredentials(g.wrapped, g.top, g.advertised)
    IN \A cfg \in {c \in Configs : c.provider = "tanzu_genai"} :
         \A c \in Range(Configure(cfg, loaded)) :
           LET llm == LLMBlock(c)[1]
           IN /\ \E o \in {"wrapped", "top"} :
                   FromPlace(CredsAt(g, o), o, llm.endpoint, llm.key)
              /\ llm.model # "embed"
              /\ cfg.model # "" => llm.model = cfg.model
-----------------------------------------------------------------------------
(* The configurations checked.  No property reads two groups of their      *)
(* parts, so one group varies at a time.                                   *)

PlanLists == Pointer(Plan) \cup {<<p, q>> : p, q \in Plan}
NoCreds == [base |-> "", key |-> "", model |-> "", endpoint |-> <<>>]
Configuration(min, onDemand, static, wrapped, top, advertised) ==
  [minVersion: min, onDemand: onDemand, static: static,
   wrapped: wrapped, top: top, advertised: advertised]
Nil == {<<>>}
Configurations ==
  Configuration(Versions, Nil, Nil, Nil, {NoCreds}, Nil)
  \cup Configuration(Nil, Nil, PlanLists, Nil, {NoCreds}, Nil)
  \cup Configuration(Nil, PlanLists, Pointer(Plan), Nil, {NoCreds}, Nil)
  \cup Configuration(Nil, Nil, Nil, Pointer(Creds("wrapped")), Creds("top"), Advertised)
=============================================================================
