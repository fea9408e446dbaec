--------------------------- MODULE FunctionProofs ---------------------------
(***************************************************************************)
(* Theorems about the pure functions: what the broker makes of its         *)
(* configuration (Startup) and of a manifest's parameters (AgentManifest), *)
(* for every configuration, and for texts of any length and characters.    *)
(***************************************************************************)
EXTENDS AgentManifest, Startup, SieveProofs

-----------------------------------------------------------------------------
(* Ports and credentials.                                                  *)

\* The port of the route is served once, with a proxy and without, for every
\* agent: template, oauth2-proxy's job and openclaw.json agree.
THEOREM PortsAgree == PortsServed
<1>1. ASSUME NEW g PROVE SSOEnabled(g) \in BOOLEAN
  BY DEF SSOEnabled
<1> SUFFICES ASSUME NEW g
             PROVE  LET m == RenderJobs(g)
                        agent == AgentPort(m.agentSso)
                    IN /\ (agent = m.route) # (m.proxy /\ m.listen = m.route)
                       /\ m.proxy => m.upstream = agent
  BY Zenon DEF PortsServed
<1>2. CASE SSOEnabled(g)
  BY <1>2 DEF RenderJobs, AgentPort
<1>3. CASE ~SSOEnabled(g)
  BY <1>1, <1>3 DEF RenderJobs, AgentPort
<1> QED BY <1>2, <1>3

\* A pointer is nil or points to something.
LEMMA AtMostOne == ASSUME NEW S, NEW s \in Pointer(S) PROVE s = <<>> \/ (s # <<>> /\ s[1] \in S)
BY DEF Pointer

\* The model that is discovered chats.
LEMMA ChatFound ==
  ASSUME NEW a \in Advertised
  PROVE  discoverChatModel(a) = <<>> \/ discoverChatModel(a) = <<"chat">>
<1> DEFINE M == {Model("embed", FALSE), Model("chat", TRUE)}
           A == {m \in Range(a) : m.chat}
           t == Sift(a, A)
<1>1. a \in Seq(M)
  <2> DEFINE e == Model("embed", FALSE)
             f == Model("chat", TRUE)
  <2>1. a = <<>> \/ a = <<e>> \/ a = <<e, f>>
    BY Zenon DEF Advertised
  <2>2. M = {e, f}
    OBVIOUS
  <2>3. e \in M /\ f \in M
    BY <2>2
  <2> HIDE DEF e, f, M
  <2>4. <<>> \in Seq(M) /\ <<e>> \in Seq(M) /\ <<e, f>> \in Seq(M)
    BY <2>3
  <2> QED BY Zenon, <2>1, <2>4
<1>2. \A m \in M : m.chat => m.name = "chat"
  BY DEF Model
<1>3. discoverChatModel(a) = IF t = <<>> THEN <<>> ELSE <<Head(t).name>>
  BY Zenon DEF discoverChatModel
<1> HIDE DEF M
<1>4. t \in Seq(M) /\ Range(t) = Range(a) \cap A
  BY <1>1, SiftType, SiftRange
<1> HIDE DEF t
<1>5. CASE t # <<>>
  <2>1. Head(t) = t[1] /\ 1 \in DOMAIN t /\ t[1] \in M
    BY <1>4, <1>5
  <2>2. t[1] \in Range(t)
    BY <2>1 DEF Range
  <2>3. t[1].chat
    BY Zenon, <1>4, <2>2
  <2> QED BY Zenon, <1>2, <1>3, <1>5, <2>1, <2>3
<1> QED BY <1>3, <1>5

\* Credentials of one place.
LEMMA CredFields ==
  ASSUME NEW o, NEW c \in Creds(o)
  PROVE  /\ c.base \in {"", o} /\ c.key \in {"", o} /\ c.model \in {"", o}
         /\ c.endpoint # <<>> => /\ c.endpoint[1].base \in {"", Within(o)}
                                 /\ c.endpoint[1].key \in {"", Within(o)}
<1>1. c.base \in {"", o} /\ c.key \in {"", o} /\ c.model \in {"", o}
      /\ c.endpoint \in Pointer(Endpoint(o))
  BY DEF Creds, Unset
<1>2. c.endpoint # <<>> => c.endpoint[1] \in Endpoint(o)
  BY <1>1, AtMostOne
<1> QED BY <1>1, <1>2 DEF Endpoint, Unset

\* What a configuration holds of the service key.
LEMMA KeyParts ==
  ASSUME NEW g \in Configurations
  PROVE  /\ g.wrapped # <<>> => g.wrapped[1] \in Creds("wrapped")
         /\ g.top \in Creds("top") /\ g.advertised \in Advertised
<1>1. NoCreds \in Creds("top") /\ <<>> \in Advertised
  <2>1. <<>> \in Pointer(Endpoint("top"))
    <3>1. <<>> \in [1..0 -> Endpoint("top")]
      OBVIOUS
    <3> QED BY <3>1 DEF Pointer
  <2> QED BY <2>1 DEF NoCreds, Creds, Unset, Advertised
<1>2. \/ g.wrapped = <<>> /\ g.top = NoCreds /\ g.advertised = <<>>
      \/ /\ g.wrapped \in Pointer(Creds("wrapped")) /\ g.top \in Creds("top")
         /\ g.advertised \in Advertised
  BY Zenon DEF Configurations, Configuration, Nil
<1> QED BY Zenon, <1>1, <1>2, AtMostOne

\* What is loaded is of one place.
Loaded(g, x) ==
  x # <<>> => \E o \in {"wrapped", "top"} :
                /\ FromPlace(CredsAt(g, o), o, x[1].base, x[1].key)
                /\ x[1].model \in {"", o, "chat"}

\* So it is for every service key.
LEMMA LoadsOnePlace ==
  ASSUME NEW g \in Configurations
  PROVE  Loaded(g, loadGenAICredentials(g.wrapped, g.top, g.advertised))
<1> DEFINE creds == CredsUsed(g.wrapped, g.top)
           nested == creds.endpoint # <<>>
           base == IF creds.base = "" /\ nested THEN creds.endpoint[1].base ELSE creds.base
           key == IF creds.key = "" /\ nested THEN creds.endpoint[1].key ELSE creds.key
           found == IF creds.model = "" /\ nested /\ creds.endpoint[1].url
                    THEN discoverChatModel(g.advertised) ELSE <<>>
           model == IF found # <<>> THEN found[1] ELSE creds.model
           r == [base |-> base, key |-> key, model |-> model]
           x == loadGenAICredentials(g.wrapped, g.top, g.advertised)
<1>1. x = IF base = "" \/ key = "" THEN <<>> ELSE <<r>>
  BY Zenon DEF loadGenAICredentials
<1>2. PICK o \in {"wrapped", "top"} : creds \in Creds(o) /\ creds = CredsAt(g, o)
  <2>1. creds = g.top \/ (g.wrapped # <<>> /\ creds = g.wrapped[1])
    BY DEF CredsUsed
  <2>2. CredsAt(g, "top") = g.top /\ CredsAt(g, "wrapped") = g.wrapped[1]
    BY DEF CredsAt
  <2> HIDE DEF creds
  <2> QED BY <2>1, <2>2, KeyParts
<1> HIDE DEF creds
<1>3. /\ creds.base \in {"", o} /\ creds.key \in {"", o} /\ creds.model \in {"", o}
      /\ nested => /\ creds.endpoint[1].base \in {"", Within(o)}
                   /\ creds.endpoint[1].key \in {"", Within(o)}
  BY Zenon, <1>2, CredFields
<1> DEFINE e == Within(o)
<1>4. /\ o # e /\ base \in {"", o, e} /\ key \in {"", o, e}
      /\ base = e => creds.base = ""
      /\ key = e => creds.key = ""
  <2>1. o # e /\ o # "" /\ e # ""
    BY DEF Within
  <2> HIDE DEF e
  <2> QED BY <1>3, <2>1 DEF e
<1>5. found = <<>> \/ found = <<"chat">>
  BY Zenon, KeyParts, ChatFound
<1> HIDE DEF found, nested, base, key
<1>6. model \in {"", o, "chat"}
  <2>1. CASE found = <<>>
    BY <1>3, <2>1
  <2>2. CASE found = <<"chat">>
    <3>1. found # <<>> /\ found[1] = "chat"
      BY <2>2
    <3> QED BY Zenon, <3>1
  <2> QED BY <1>5, <2>1, <2>2
<1> HIDE DEF model
<1>7. CASE base # "" /\ key # ""
  <2>1. x = <<r>>
    BY <1>1, <1>7
  <2>2. x[1].base = base /\ x[1].key = key /\ x[1].model = model
    <3> HIDE DEF x
    <3> QED BY <2>1
  <2>3. FromPlace(CredsAt(g, o), o, base, key)
    BY <1>2, <1>4, <1>7 DEF FromPlace
  <2> HIDE DEF x
  <2> QED BY Zenon, <1>6, <2>2, <2>3 DEF Loaded, x
<1>8. CASE ~(base # "" /\ key # "")
  BY <1>1, <1>8 DEF Loaded
<1> QED BY <1>7, <1>8

\* For every service key and every configuration of the provider, an agent's
\* endpoint and key come from one set of the service key's credentials.
THEOREM CredentialsOfOnePlace == starting \subseteq Configurations => OneSetOfCredentials
<1> SUFFICES ASSUME NEW g \in Configurations, NEW cfg \in Configs, cfg.provider = "tanzu_genai",
                    NEW c \in Range(Configure(cfg, loadGenAICredentials(g.wrapped, g.top, g.advertised)))
             PROVE  LET llm == LLMBlock(c)[1]
                    IN /\ \E o \in {"wrapped", "top"} :
                            FromPlace(CredsAt(g, o), o, llm.endpoint, llm.key)
                       /\ llm.model # "embed"
                       /\ cfg.model # "" => llm.model = cfg.model
  BY Zenon DEF OneSetOfCredentials
<1> DEFINE x == loadGenAICredentials(g.wrapped, g.top, g.advertised)
           model == IF cfg.model = "" THEN x[1].model ELSE cfg.model
<1>1. Loaded(g, x)
  BY LoadsOnePlace
<1>2. c \in Range(Configure(cfg, x))
  OBVIOUS
<1> HIDE DEF x
<1>3. x # <<>> /\ c = [cfg EXCEPT !.endpoint = x[1].base, !.key = x[1].key,
                                  !.model = IF @ = "" THEN x[1].model ELSE @]
  <2>1. CASE x = <<>>
    BY <1>2, <2>1 DEF Configure, Range
  <2>2. CASE x # <<>>
    <3> DEFINE d == [cfg EXCEPT !.endpoint = x[1].base, !.key = x[1].key,
                                !.model = IF @ = "" THEN x[1].model ELSE @]
    <3>1. Configure(cfg, x) = <<d>>
      BY <2>2 DEF Configure
    <3> HIDE DEF d
    <3>2. c = d
      BY <1>2, <3>1 DEF Range
    <3> QED BY <2>2, <3>2 DEF d
  <2> QED BY <2>1, <2>2
<1>4. PICK o \in {"wrapped", "top"} :
        /\ FromPlace(CredsAt(g, o), o, x[1].base, x[1].key)
        /\ x[1].model \in {"", o, "chat"}
  BY <1>1, <1>3 DEF Loaded
<1> DEFINE base == x[1].base
           key == x[1].key
<1>5. /\ c.provider = "tanzu_genai" /\ c.endpoint = base /\ c.key = key /\ c.model = model
  BY Zenon, <1>3 DEF Configs
<1>6. cfg.model \in {"", "config"}
  BY DEF Configs, Unset
<1>7. LLMBlock(c) = <<[endpoint |-> base, key |-> key, model |-> model]>>
  <2>1. base \in {o, Within(o)} /\ o # "" /\ Within(o) # ""
    BY <1>4 DEF FromPlace, Within
  <2>2. base # "" /\ c.provider # ""
    BY <1>5, <2>1
  <2> HIDE DEF base, key, model
  <2> QED BY <1>5, <2>2 DEF LLMBlock
<1>8. model # "embed" /\ (cfg.model # "" => model = cfg.model)
  BY <1>4, <1>6
<1> HIDE DEF model, base, key
<1>9. /\ LLMBlock(c)[1].endpoint = base /\ LLMBlock(c)[1].key = key
      /\ LLMBlock(c)[1].model = model
  BY <1>7
<1>10. FromPlace(CredsAt(g, o), o, base, key)
  BY <1>4 DEF base, key
<1> QED BY Zenon, <1>8, <1>9, <1>10

-----------------------------------------------------------------------------
(* Plans.                                                                  *)

\* A list of plans is a sequence of plans.
LEMMA PlanSeqs ==
  ASSUME NEW g \in Configurations
  PROVE  g.onDemand \in Seq(Plan) /\ g.static \in Seq(Plan)
<1>1. ASSUME NEW s \in Pointer(Plan) PROVE s \in Seq(Plan)
  <2>1. s = <<>> \/ \E x \in Plan : s = <<x>>
    BY Zenon DEF Pointer
  <2>2. <<>> \in Seq(Plan) /\ \A x \in Plan : <<x>> \in Seq(Plan)
    OBVIOUS
  <2> QED BY Zenon, <2>1, <2>2
<1>2. ASSUME NEW s \in PlanLists PROVE s \in Seq(Plan)
  <2>1. CASE s \in Pointer(Plan)
    BY <1>1, <2>1
  <2>2. ASSUME NEW p \in Plan, NEW q \in Plan, s = <<p, q>> PROVE s \in Seq(Plan)
    <3>1. <<p, q>> \in Seq(Plan)
      OBVIOUS
    <3> QED BY Zenon, <2>2, <3>1
  <2>3. s \in Pointer(Plan) \/ \E p, q \in Plan : s = <<p, q>>
    BY DEF PlanLists
  <2> QED BY Zenon, <2>1, <2>2, <2>3
<1>3. <<>> \in Seq(Plan)
  OBVIOUS
<1>4. /\ g.onDemand = <<>> \/ g.onDemand \in PlanLists
      /\ g.static = <<>> \/ g.static \in PlanLists \/ g.static \in Pointer(Plan)
  BY Zenon DEF Configurations, Configuration, Nil
<1> QED BY Zenon, <1>1, <1>2, <1>3, <1>4

\* An offer: every plan with a name has an ID.
Offers(o) ==
  /\ o \in Seq(Range(o)) /\ o # <<>>
  /\ \A k \in DOMAIN o : o[k].name # "" => o[k].id # <<>>

\* The ID that is made of a name is one.
LEMMA IdIsSet == ASSUME NEW name PROVE IdFor(name) # <<>>
<1>1. Len(IdFor(name)) = 3
  BY DEF IdFor
<1> QED BY <1>1

\* Normalized plans, if there are any, make an offer.
LEMMA NormalOffers ==
  ASSUME NEW l \in Seq(Plan)
  PROVE  /\ l # <<>> => Offers(normalizePlans(l)) /\ Len(normalizePlans(l)) = Len(l)
         /\ l = <<>> <=> normalizePlans(l) = <<>>
<1> DEFINE e(k) == IF l[k].id = <<>> /\ l[k].name # ""
                   THEN [l[k] EXCEPT !.id = IdFor(l[k].name)] ELSE l[k]
           o == normalizePlans(l)
           n == Len(l)
<1>1. n \in Nat /\ DOMAIN l = 1..n
  OBVIOUS
<1>2. o = [k \in 1..n |-> e(k)]
  BY Zenon, <1>1 DEF normalizePlans
<1>3. ASSUME NEW k \in 1..n PROVE e(k).name # "" => e(k).id # <<>>
  <2>1. l[k] \in Plan
    OBVIOUS
  <2>2. CASE l[k].id = <<>> /\ l[k].name # ""
    <3>1. e(k) = [l[k] EXCEPT !.id = IdFor(l[k].name)]
      BY Zenon, <2>2
    <3>2. [l[k] EXCEPT !.id = IdFor(l[k].name)].id = IdFor(l[k].name)
      BY Zenon, <2>1 DEF Plan
    <3> QED BY Zenon, <3>1, <3>2, IdIsSet
  <2>3. CASE ~(l[k].id = <<>> /\ l[k].name # "")
    <3>1. e(k) = l[k]
      BY Zenon, <2>3
    <3> QED BY Zenon, <2>3, <3>1
  <2> QED BY <2>2, <2>3
<1> HIDE DEF e, o, n
<1>4. DOMAIN o = 1..n /\ \A k \in 1..n : o[k] = e(k)
  BY Zenon, <1>2
<1>5. o \in [1..n -> Range(o)]
  BY <1>2, <1>4 DEF Range
<1>6. o \in Seq(Range(o)) /\ Len(o) = n
  BY <1>1, <1>5
<1>7. l = <<>> <=> n = 0
  BY DEF n
<1>8. o = <<>> <=> n = 0
  BY <1>1, <1>6
<1>9. \A k \in DOMAIN o : o[k].name # "" => o[k].id # <<>>
  BY Zenon, <1>3, <1>4
<1> QED BY Zenon, <1>6, <1>7, <1>8, <1>9 DEF Offers, o, n

\* So do the default plans.
LEMMA DefaultOffers == Offers(defaultPlans)
<1> DEFINE P(name, vm) == [id |-> IdFor(name), name |-> name, vm |-> vm]
           a == P("developer", 1)
           b == P("developer-plus", 2)
           c == P("team", 3)
           o == <<a, b, c>>
<1>1. defaultPlans = o
  BY Zenon DEF defaultPlans
<1>2. a.id # <<>> /\ b.id # <<>> /\ c.id # <<>>
  <2>1. \A name, vm : P(name, vm).id = IdFor(name)
    OBVIOUS
  <2> HIDE DEF P
  <2> QED BY Zenon, <2>1, IdIsSet
<1> HIDE DEF a, b, c
<1>3. DOMAIN o = {1, 2, 3} /\ o[1] = a /\ o[2] = b /\ o[3] = c /\ Len(o) = 3
  OBVIOUS
<1>4. o \in Seq({a, b, c})
  OBVIOUS
<1>5. Range(o) = {a, b, c}
  BY <1>3 DEF Range
<1>6. o # <<>>
  BY <1>3
<1> HIDE DEF o
<1>7. Offers(o)
  BY Zenon, <1>2, <1>3, <1>4, <1>5, <1>6 DEF Offers
<1> QED BY Zenon, <1>1, <1>7

\* An ID only one plan of an offer has selects that plan.
LEMMA OnlyPlan ==
  ASSUME NEW o, Offers(o), NEW k \in DOMAIN o, \A j \in DOMAIN o \ {k} : o[j].id # o[k].id
  PROVE  Head(Sift(o, {p \in Range(o) : p.id = o[k].id})) = o[k]
<1> DEFINE S == Range(o)
           A == {p \in S : p.id = o[k].id}
           t == Sift(o, A)
<1>1. o \in Seq(S)
  BY Zenon DEF Offers
<1>2. S = {o[j] : j \in DOMAIN o}
  BY Zenon DEF Range
<1>3. A = {o[k]}
  BY Zenon, <1>2
<1> HIDE DEF S, A
<1>4. t \in Seq(S)
  BY Zenon, <1>1, SiftType
<1>5. Range(t) = S \cap A
  <2>1. Range(t) = Range(o) \cap A
    BY Zenon, <1>1, SiftRange
  <2> QED BY Zenon, <2>1 DEF S
<1> HIDE DEF t
<1>6. o[k] \in Range(t) /\ \A x \in Range(t) : x = o[k]
  BY Zenon, <1>2, <1>3, <1>5
<1>7. t # <<>>
  <2>1. PICK j \in DOMAIN t : t[j] = o[k]
    BY Zenon, <1>6 DEF Range
  <2> QED BY <1>4, <2>1
<1>8. 1 \in DOMAIN t /\ Head(t) = t[1]
  BY <1>4, <1>7
<1>9. t[1] \in Range(t)
  BY Zenon, <1>8 DEF Range
<1> QED BY Zenon, <1>6, <1>8, <1>9 DEF t, A, S

\* For every configuration of plans (the tile's forms, static plans, none) the
\* catalog offers a plan, a named plan has an ID, and an ID that is offered once
\* is the one findPlan finds.
THEOREM PlansAlwaysOffered == starting \subseteq Configurations => PlansOffered
<1> SUFFICES ASSUME NEW g \in Configurations
             PROVE  LET plans == ConfigPlans(g.onDemand, g.static)
                        offer == buildServicePlans(plans)
                    IN /\ offer # <<>>
                       /\ g.onDemand # <<>> => Len(offer) = Len(g.onDemand)
                       /\ \A k \in DOMAIN offer :
                            /\ offer[k].name # "" => offer[k].id # <<>>
                            /\ (\A j \in DOMAIN offer \ {k} : offer[j].id # offer[k].id)
                                 => Head(findPlan(plans, offer[k].id)) = offer[k]
  BY Zenon DEF PlansOffered
<1> DEFINE l == IF g.onDemand = <<>> THEN g.static ELSE g.onDemand
           plans == ConfigPlans(g.onDemand, g.static)
           offer == buildServicePlans(plans)
<1>1. l \in Seq(Plan) /\ plans = normalizePlans(l)
  BY Zenon, PlanSeqs DEF ConfigPlans
<1>2. offer = IF plans = <<>> THEN defaultPlans ELSE plans
  BY Zenon DEF buildServicePlans
<1>3. \A id : findPlan(plans, id) = Sift(offer, {p \in Range(offer) : p.id = id})
  BY Zenon, <1>2 DEF findPlan
<1> HIDE DEF plans, offer
<1>4. l # <<>> => plans # <<>> /\ Offers(plans) /\ Len(plans) = Len(l)
  BY Zenon, <1>1, NormalOffers
<1>5. l = <<>> => plans = <<>>
  BY Zenon, <1>1, NormalOffers
<1>6. Offers(offer)
  BY Zenon, <1>2, <1>4, <1>5, DefaultOffers
<1>7. g.onDemand # <<>> => Len(offer) = Len(g.onDemand)
  BY Zenon, <1>2, <1>4
<1>8. /\ offer # <<>>
      /\ \A k \in DOMAIN offer : offer[k].name # "" => offer[k].id # <<>>
  BY Zenon, <1>6 DEF Offers
<1>9. \A k \in DOMAIN offer :
        (\A j \in DOMAIN offer \ {k} : offer[j].id # offer[k].id)
          => Head(findPlan(plans, offer[k].id)) = offer[k]
  BY Zenon, <1>3, <1>6, OnlyPlan
<1> QED BY Zenon, <1>7, <1>8, <1>9 DEF plans, offer

-----------------------------------------------------------------------------
(* Quoted values.                                                          *)

\* Characters replaced by characters are characters.
LEMMA TextType ==
  ASSUME NEW S, NEW s \in Seq(S), NEW f \in [S -> Seq(S)]
  PROVE  Spread(s, f) \in Seq(S)
<1>1. Over(S, S, s, f)
  BY Zenon DEF Over
<1> QED BY <1>1, SpreadType

\* One more character.
LEMMA TextAppend ==
  ASSUME NEW S, NEW s \in Seq(S), NEW x \in S, NEW f \in [S -> Seq(S)]
  PROVE  Spread(Append(s, x), f) = Spread(s, f) \o f[x]
<1>1. Over(S, S, s, f)
  BY Zenon DEF Over
<1> QED BY <1>1, SpreadAppend

\* What a character that is put in becomes in a quoted value.
Step(S, c, with) == [x \in S |-> IF x = c THEN with ELSE <<x>>]

\* What characters are replaced by are sequences.
LEMMA StepType ==
  ASSUME NEW S, NEW c, NEW with \in Seq(S)
  PROVE  Step(S, c, with) \in [S -> Seq(S)]
BY DEF Step

\* Substitute, with a function that does not depend on the text.
LEMMA SubstituteSpreads ==
  ASSUME NEW S, NEW s \in Seq(S), NEW c, NEW with \in Seq(S)
  PROVE  Substitute(s, c, with) = Spread(s, Step(S, c, with))
<1> DEFINE R == Range(s)
           f == Step(S, c, with)
           h == Step(R, c, with)
<1>1. f \in [S -> Seq(S)]
  BY Zenon, StepType
<1>2. s \in Seq(R) /\ R \subseteq S
  BY DEF Range
<1>3. h \in [R -> Seq(S)]
  <2>1. \A x \in R : (IF x = c THEN with ELSE <<x>>) \in Seq(S)
    BY <1>2
  <2> QED BY Zenon, <2>1 DEF Step
<1>4. \A x \in R : h[x] = f[x]
  BY Zenon, <1>2 DEF Step
<1>5. Substitute(s, c, with) = Spread(s, h)
  BY DEF Substitute, Step
<1> HIDE DEF f, h
<1>6. Spread(s, h) = Spread(s, f)
  <2>1. SameOn(R, S, S, s, h, f)
    BY Zenon, <1>1, <1>2, <1>3, <1>4 DEF SameOn, Over
  <2> QED BY <2>1, SpreadSame
<1> QED BY Zenon, <1>5, <1>6 DEF f

-----------------------------------------------------------------------------
(* What YAML reads between quotes.                                         *)

\* The states of the reader: where it starts, and what follows.
Start == <<FALSE, FALSE, <<>> >>

\* They are whether the value has ended, whether an escape is open, and what is
\* read.
States(S) == BOOLEAN \X BOOLEAN \X Seq(S)

\* f is the list of its states over the first n characters.
Runs(t, n, f) == f[0] = Start /\ \A i \in 1..n : f[i] = ReadChar(f[i - 1], t[i])

\* A character leads from a state to a state.
LEMMA ReadType ==
  ASSUME NEW S, NEW p \in States(S), NEW c \in S
  PROVE  ReadChar(p, c) \in States(S)
<1>1. p[1] \in BOOLEAN /\ p[2] \in BOOLEAN /\ p[3] \in Seq(S) /\ Append(p[3], c) \in Seq(S)
  BY DEF States
<1>2. \A a, b \in BOOLEAN, t \in Seq(S) : <<a, b, t>> \in States(S)
  BY DEF States
<1>3. \/ ReadChar(p, c) = p \/ ReadChar(p, c) = <<FALSE, FALSE, Append(p[3], c)>>
      \/ ReadChar(p, c) = <<FALSE, TRUE, p[3]>> \/ ReadChar(p, c) = <<TRUE, FALSE, p[3]>>
  BY Zenon DEF ReadChar
<1> QED BY Zenon, <1>1, <1>2, <1>3

\* There is a run over every text.
LEMMA RunsExist ==
  ASSUME NEW S, NEW t \in Seq(S), NEW n \in 0..Len(t)
  PROVE  \E f \in [0..n -> States(S)] : Runs(t, n, f)
<1> DEFINE P(m) == \E f \in [0..m -> States(S)] : Runs(t, m, f)
           T == {m \in 0..Len(t) : ~P(m)}
<1> HIDE DEF P
<1> SUFFICES ASSUME T # {} PROVE FALSE
  BY DEF P
<1>0. T \subseteq Nat
  OBVIOUS
<1>1. PICK m \in T : \A k \in T : m <= k
  BY Zenon, <1>0, Least
<1>2. m # 0
  <2> DEFINE f == [i \in 0..0 |-> Start]
  <2>1. Start \in States(S)
    <3>1. <<>> \in Seq(S)
      OBVIOUS
    <3>2. \A a, b \in BOOLEAN, s \in Seq(S) : <<a, b, s>> \in States(S)
      BY DEF States
    <3> QED BY Zenon, <3>1, <3>2 DEF Start
  <2>2. f \in [0..0 -> States(S)] /\ f[0] = Start
    BY <2>1
  <2>3. Runs(t, 0, f)
    BY <2>2 DEF Runs
  <2>4. P(0)
    BY Zenon, <2>2, <2>3 DEF P
  <2> QED BY <2>4
<1>3. m \in Nat /\ m >= 1 /\ m \in 1..Len(t) /\ m - 1 \in 0..Len(t) /\ m - 1 \notin T
  BY <1>0, <1>1, <1>2
<1>4. PICK f \in [0..(m - 1) -> States(S)] : Runs(t, m - 1, f)
  BY <1>3 DEF P
<1> DEFINE y == ReadChar(f[m - 1], t[m])
           g == [i \in 0..m |-> IF i = m THEN y ELSE f[i]]
<1>5. y \in States(S)
  <2>1. f[m - 1] \in States(S) /\ t[m] \in S
    BY <1>3
  <2> QED BY Zenon, <2>1, ReadType
<1>6. \A i \in 0..m : i # m => i \in 0..(m - 1)
  BY <1>3
<1>7. g \in [0..m -> States(S)]
  <2> HIDE DEF y
  <2> QED BY Zenon, <1>5, <1>6
<1>8. Runs(t, m, g)
  <2>1. 0 \in 0..m /\ 0 # m
    BY <1>3
  <2>2. g[0] = Start
    BY Zenon, <1>4, <2>1 DEF Runs
  <2>3. ASSUME NEW i \in 1..m PROVE g[i] = ReadChar(g[i - 1], t[i])
    <3>1. i \in 0..m /\ i - 1 \in 0..m /\ i - 1 # m /\ (i # m => i \in 1..(m - 1))
      BY <1>3
    <3>2. g[i - 1] = f[i - 1]
      BY Zenon, <3>1
    <3>3. CASE i = m
      BY Zenon, <3>1, <3>2, <3>3
    <3>4. CASE i # m
      BY Zenon, <1>4, <3>1, <3>2, <3>4 DEF Runs
    <3> QED BY <3>3, <3>4
  <2> HIDE DEF g
  <2> QED BY Zenon, <2>2, <2>3 DEF Runs
<1>9. P(m)
  BY Zenon, <1>7, <1>8 DEF P
<1> QED BY <1>9

\* Runs over texts that are the same up to n are the same up to n.
LEMMA RunsUnique ==
  ASSUME NEW t, NEW u, NEW n \in Nat, NEW f, NEW g, Runs(t, n, f), Runs(u, n, g), Agree(t, u, n)
  PROVE  f[n] = g[n]
<1> DEFINE T == {i \in 0..n : f[i] # g[i]}
<1> SUFFICES ASSUME T # {} PROVE FALSE
  OBVIOUS
<1>0. T \subseteq Nat
  OBVIOUS
<1>1. PICK m \in T : \A k \in T : m <= k
  BY Zenon, <1>0, Least
<1>2. m # 0
  BY DEF Runs
<1>3. m - 1 \in 0..n /\ m - 1 \notin T /\ m \in 1..n
  BY <1>0, <1>1, <1>2
<1>4. f[m] # g[m] /\ f[m - 1] = g[m - 1] /\ t[m] = u[m]
  BY <1>3 DEF Agree
<1> QED BY Zenon, <1>3, <1>4 DEF Runs

\* The state after the last character, and what Unquote takes from it.
After(t) ==
  LET run[i \in 0..Len(t)] == IF i = 0 THEN <<FALSE, FALSE, <<>> >>
                              ELSE ReadChar(run[i - 1], t[i])
  IN run[Len(t)]

\* It is the last state of a run.
LEMMA AfterIs ==
  ASSUME NEW S, NEW t \in Seq(S)
  PROVE  \E f \in [0..Len(t) -> States(S)] : Runs(t, Len(t), f) /\ After(t) = f[Len(t)]
<1> DEFINE n == Len(t)
           Def(f) == f = [i \in 0..n |-> IF i = 0 THEN <<FALSE, FALSE, <<>> >>
                                         ELSE ReadChar(f[i - 1], t[i])]
           c == CHOOSE f : Def(f)
<1>1. n \in Nat
  OBVIOUS
<1>2. PICK f \in [0..n -> States(S)] : Runs(t, n, f)
  <2>1. n \in 0..Len(t)
    BY <1>1
  <2> QED BY Zenon, <2>1, RunsExist
<1>3. Def(f)
  <2>1. ASSUME NEW i \in 0..n
        PROVE  f[i] = IF i = 0 THEN <<FALSE, FALSE, <<>> >> ELSE ReadChar(f[i - 1], t[i])
    <3>1. i = 0 \/ i \in 1..n
      BY <1>1
    <3> QED BY Zenon, <1>2, <3>1 DEF Runs, Start
  <2>2. f = [i \in 0..n |-> f[i]]
    OBVIOUS
  <2> QED BY Zenon, <2>1, <2>2
<1>4. Def(c)
  BY Zenon, <1>3
<1>5. After(t) = c[n]
  BY DEF After
<1> HIDE DEF c, n
<1>6. ASSUME NEW i \in 0..n
      PROVE  c[i] = IF i = 0 THEN <<FALSE, FALSE, <<>> >> ELSE ReadChar(c[i - 1], t[i])
  BY Zenon, <1>4
<1>7. Runs(t, n, c)
  <2>1. 0 \in 0..n /\ \A i \in 1..n : i \in 0..n /\ i # 0
    BY <1>1
  <2> QED BY Zenon, <1>6, <2>1 DEF Runs, Start
<1>8. c[n] = f[n]
  <2>1. Agree(t, t, n)
    BY DEF Agree
  <2> QED BY Zenon, <1>1, <1>2, <1>7, <2>1, RunsUnique
<1> QED BY Zenon, <1>2, <1>5, <1>8 DEF n

\* At first it is the start.
LEMMA AfterNil == After(<<>>) = Start
<1> DEFINE t == <<>>
<1>1. t \in Seq({}) /\ Len(t) = 0
  OBVIOUS
<1> HIDE DEF t
<1>2. PICK f \in [0..Len(t) -> States({})] : Runs(t, Len(t), f) /\ After(t) = f[Len(t)]
  BY Zenon, <1>1, AfterIs
<1>3. After(t) = Start
  BY Zenon, <1>1, <1>2 DEF Runs
<1> QED BY <1>3 DEF t

\* One more character is read.
LEMMA AfterAppend ==
  ASSUME NEW S, NEW t \in Seq(S), NEW c \in S
  PROVE  After(Append(t, c)) = ReadChar(After(t), c)
<1> DEFINE u == Append(t, c)
<1>1. /\ u \in Seq(S) /\ Len(u) = Len(t) + 1 /\ u[Len(t) + 1] = c /\ Len(t) \in Nat
      /\ \A i \in 1..Len(t) : u[i] = t[i]
  OBVIOUS
<1> HIDE DEF u
<1>2. PICK f \in [0..Len(t) -> States(S)] : Runs(t, Len(t), f) /\ After(t) = f[Len(t)]
  BY Zenon, AfterIs
<1>3. PICK g \in [0..Len(u) -> States(S)] : Runs(u, Len(u), g) /\ After(u) = g[Len(u)]
  BY Zenon, <1>1, AfterIs
<1>4. Len(t) + 1 \in 1..Len(u) /\ (Len(t) + 1) - 1 = Len(t) /\ \A i \in 1..Len(t) : i \in 1..Len(u)
  BY <1>1
<1>5. Runs(u, Len(t), g)
  BY Zenon, <1>3, <1>4 DEF Runs
<1>6. g[Len(t)] = f[Len(t)]
  <2>1. Agree(u, t, Len(t))
    BY Zenon, <1>1 DEF Agree
  <2> DEFINE n == Len(t)
  <2>2. n \in Nat /\ Runs(u, n, g) /\ Runs(t, n, f) /\ Agree(u, t, n)
    BY Zenon, <1>1, <1>2, <1>5, <2>1
  <2> HIDE DEF n
  <2>3. g[n] = f[n]
    BY Zenon, <2>2, RunsUnique
  <2> QED BY <2>3 DEF n
<1>7. g[Len(t) + 1] = ReadChar(g[(Len(t) + 1) - 1], u[Len(t) + 1])
  BY Zenon, <1>3, <1>4 DEF Runs
<1>8. After(u) = ReadChar(After(t), c)
  BY Zenon, <1>1, <1>2, <1>3, <1>4, <1>6, <1>7
<1> QED BY Zenon, <1>8 DEF u

-----------------------------------------------------------------------------
(* Quoting.                                                                *)

\* A character that is kept.
LEMMA SpreadKeep ==
  ASSUME NEW S, NEW s \in Seq(S), NEW x \in S, NEW f \in [S -> Seq(S)], f[x] = <<x>>
  PROVE  Spread(Append(s, x), f) = Append(Spread(s, f), x)
<1> DEFINE t == Spread(s, f)
<1>1. Spread(Append(s, x), f) = t \o f[x]
  BY Zenon, TextAppend
<1>2. t \in Seq(S)
  BY Zenon, TextType
<1> HIDE DEF t
<1>3. t \o <<x>> = Append(t, x)
  BY <1>2
<1> QED BY <1>1, <1>3 DEF t

\* A character that is removed.
LEMMA SpreadDrop ==
  ASSUME NEW S, NEW s \in Seq(S), NEW x \in S, NEW f \in [S -> Seq(S)], f[x] = <<>>
  PROVE  Spread(Append(s, x), f) = Spread(s, f)
<1> DEFINE t == Spread(s, f)
<1>1. Spread(Append(s, x), f) = t \o f[x]
  BY Zenon, TextAppend
<1>2. t \in Seq(S)
  BY Zenon, TextType
<1> HIDE DEF t
<1>3. t \o <<>> = t
  BY <1>2
<1> QED BY <1>1, <1>3 DEF t

\* A character that is escaped.
LEMMA SpreadEscape ==
  ASSUME NEW S, NEW s \in Seq(S), NEW x \in S, NEW f \in [S -> Seq(S)], f[x] = <<"\\", x>>
  PROVE  Spread(Append(s, x), f) = Append(Append(Spread(s, f), "\\"), x)
<1> DEFINE t == Spread(s, f)
<1>1. Spread(Append(s, x), f) = t \o f[x]
  BY Zenon, TextAppend
<1>2. t \in Seq(S)
  BY Zenon, TextType
<1> HIDE DEF t
<1>3. t \o <<"\\", x>> = Append(Append(t, "\\"), x)
  <2> DEFINE V == S \cup {"\\"}
  <2>1. t \in Seq(V) /\ x \in V /\ "\\" \in V
    BY <1>2, SeqMonotonic
  <2> HIDE DEF V
  <2> QED BY <2>1
<1> QED BY <1>1, <1>3 DEF t

\* The characters of a quoted value.
Alphabet(S) == "\\" \in S /\ "q" \in S /\ "~" \in S

\* What sanitizeForYAML does, character by character.
LEMMA SanitizeSpreads ==
  ASSUME NEW S, Alphabet(S), NEW s \in Seq(S)
  PROVE  LET b == Step(S, "\\", <<"\\", "\\">>)
             k == Step(S, "q", <<"\\", "q">>)
             d == Step(S, "~", <<>>)
         IN  /\ Spread(s, b) \in Seq(S) /\ Spread(Spread(s, b), k) \in Seq(S)
             /\ sanitizeForYAML(s) = Spread(Spread(Spread(s, b), k), d)
             /\ sanitizeForYAML(s) \in Seq(S)
<1> DEFINE b == Step(S, "\\", <<"\\", "\\">>)
           k == Step(S, "q", <<"\\", "q">>)
           d == Step(S, "~", <<>>)
           u == Spread(s, b)
           v == Spread(u, k)
           word == Spread(v, d)
<1>1. "\\" \in S /\ "q" \in S /\ "~" \in S
  BY DEF Alphabet
<1>2. b \in [S -> Seq(S)] /\ k \in [S -> Seq(S)] /\ d \in [S -> Seq(S)]
  <2>1. <<"\\", "\\">> \in Seq(S) /\ <<"\\", "q">> \in Seq(S) /\ <<>> \in Seq(S)
    BY <1>1
  <2> QED BY Zenon, <2>1, StepType
<1>3. u \in Seq(S)
  BY Zenon, <1>2, TextType
<1>4. v \in Seq(S)
  BY Zenon, <1>2, <1>3, TextType
<1>5. word \in Seq(S)
  BY Zenon, <1>2, <1>4, TextType
<1>10. <<"\\", "\\">> \in Seq(S) /\ <<"\\", "q">> \in Seq(S) /\ <<>> \in Seq(S)
  BY <1>1
<1>6. Escape(s, "\\") = u
  BY Zenon, <1>10, SubstituteSpreads DEF Escape
<1>7. Escape(u, "q") = v
  BY Zenon, <1>3, <1>10, SubstituteSpreads DEF Escape
<1>8. Printable(v) = word
  BY Zenon, <1>4, <1>10, SubstituteSpreads DEF Printable
<1>9. sanitizeForYAML(s) = word
  BY Zenon, <1>6, <1>7, <1>8 DEF sanitizeForYAML
<1> QED BY Zenon, <1>3, <1>4, <1>5, <1>9

\* One more character in a value.
LEMMA SanitizeAppend ==
  ASSUME NEW S, Alphabet(S), NEW s \in Seq(S), NEW x \in S
  PROVE  LET t == sanitizeForYAML(s)
             u == sanitizeForYAML(Append(s, x))
         IN  /\ x \in {"\\", "q"} => u = Append(Append(t, "\\"), x)
             /\ x = "~" => u = t
             /\ x \notin {"\\", "q", "~"} => u = Append(t, x)
<1> DEFINE b == Step(S, "\\", <<"\\", "\\">>)
           k == Step(S, "q", <<"\\", "q">>)
           d == Step(S, "~", <<>>)
           B == Spread(s, b)
           K == Spread(B, k)
           D == Spread(K, d)
           e == "\\"
<1>1. e \in S /\ "q" \in S /\ "~" \in S
  BY DEF Alphabet
<1>2. b \in [S -> Seq(S)] /\ k \in [S -> Seq(S)] /\ d \in [S -> Seq(S)]
  <2>1. <<"\\", "\\">> \in Seq(S) /\ <<"\\", "q">> \in Seq(S) /\ <<>> \in Seq(S)
    BY <1>1
  <2> QED BY Zenon, <2>1, StepType
<1>3. /\ \A y \in S : b[y] = IF y = e THEN <<e, e>> ELSE <<y>>
      /\ \A y \in S : k[y] = IF y = "q" THEN <<e, "q">> ELSE <<y>>
      /\ \A y \in S : d[y] = IF y = "~" THEN <<>> ELSE <<y>>
  BY Zenon DEF Step
<1>4. B \in Seq(S) /\ K \in Seq(S) /\ sanitizeForYAML(s) = D /\ D \in Seq(S)
  BY Zenon, SanitizeSpreads
<1>5. Append(s, x) \in Seq(S)
  OBVIOUS
<1>6. sanitizeForYAML(Append(s, x)) = Spread(Spread(Spread(Append(s, x), b), k), d)
  BY Zenon, <1>5, SanitizeSpreads
<1>7. e # "q" /\ e # "~" /\ "q" # "~"
  OBVIOUS
<1> HIDE DEF b, k, d, B, K, D, e
<1>8. ASSUME NEW t \in Seq(S), NEW y \in S
      PROVE  Append(t, y) \in Seq(S)
  OBVIOUS
<1>9. CASE x = e
  <2>1. Spread(Append(s, x), b) = Append(Append(B, e), x)
    <3>1. b[x] = <<e, x>>
      BY Zenon, <1>3, <1>9
    <3> QED BY Zenon, <1>2, <3>1, SpreadEscape DEF B, e
  <2>2. \A t \in Seq(S) : Spread(Append(t, e), k) = Append(Spread(t, k), e)
    <3>1. k[e] = <<e>>
      BY Zenon, <1>1, <1>3, <1>7
    <3> QED BY Zenon, <1>1, <1>2, <3>1, SpreadKeep
  <2>3. \A t \in Seq(S) : Spread(Append(t, e), d) = Append(Spread(t, d), e)
    <3>1. d[e] = <<e>>
      BY Zenon, <1>1, <1>3, <1>7
    <3> QED BY Zenon, <1>1, <1>2, <3>1, SpreadKeep
  <2>4. Spread(Append(Append(B, e), e), k) = Append(Append(K, e), e)
    BY Zenon, <1>1, <1>4, <1>8, <2>2 DEF K
  <2>5. Spread(Append(Append(K, e), e), d) = Append(Append(D, e), e)
    BY Zenon, <1>1, <1>4, <1>8, <2>3 DEF D
  <2>6. sanitizeForYAML(Append(s, x)) = Append(Append(D, e), x)
    BY Zenon, <1>6, <1>9, <2>1, <2>4, <2>5
  <2> QED BY Zenon, <1>4, <1>7, <1>9, <2>6 DEF e
<1>10. CASE x = "q"
  <2>1. Spread(Append(s, x), b) = Append(B, x)
    <3>1. b[x] = <<x>>
      BY Zenon, <1>3, <1>7, <1>10
    <3> QED BY Zenon, <1>2, <3>1, SpreadKeep DEF B
  <2>2. Spread(Append(B, x), k) = Append(Append(K, e), x)
    <3>1. k[x] = <<e, x>>
      BY Zenon, <1>3, <1>10
    <3> QED BY Zenon, <1>2, <1>4, <3>1, SpreadEscape DEF K, e
  <2>3. \A y \in {e, x} : \A t \in Seq(S) : Spread(Append(t, y), d) = Append(Spread(t, d), y)
    <3>1. \A y \in {e, x} : y \in S /\ d[y] = <<y>>
      BY Zenon, <1>1, <1>3, <1>7, <1>10
    <3> QED BY Zenon, <1>2, <3>1, SpreadKeep
  <2>4. Spread(Append(Append(K, e), x), d) = Append(Append(D, e), x)
    BY Zenon, <1>1, <1>4, <1>8, <2>3 DEF D
  <2>5. sanitizeForYAML(Append(s, x)) = Append(Append(D, e), x)
    BY Zenon, <1>6, <2>1, <2>2, <2>4
  <2> QED BY Zenon, <1>4, <1>7, <1>10, <2>5 DEF e
<1>11. CASE x = "~"
  <2>1. b[x] = <<x>> /\ k[x] = <<x>> /\ d[x] = <<>>
    BY Zenon, <1>3, <1>7, <1>11
  <2>2. Spread(Append(s, x), b) = Append(B, x)
    BY Zenon, <1>2, <2>1, SpreadKeep DEF B
  <2>3. Spread(Append(B, x), k) = Append(K, x)
    BY Zenon, <1>2, <1>4, <2>1, SpreadKeep DEF K
  <2>4. Spread(Append(K, x), d) = D
    BY Zenon, <1>2, <1>4, <2>1, SpreadDrop DEF D
  <2> QED BY Zenon, <1>4, <1>6, <1>7, <1>11, <2>2, <2>3, <2>4 DEF e
<1>12. CASE x \notin {e, "q", "~"}
  <2>1. b[x] = <<x>> /\ k[x] = <<x>> /\ d[x] = <<x>>
    BY Zenon, <1>3, <1>12
  <2>2. Spread(Append(s, x), b) = Append(B, x)
    BY Zenon, <1>2, <2>1, SpreadKeep DEF B
  <2>3. Spread(Append(B, x), k) = Append(K, x)
    BY Zenon, <1>2, <1>4, <2>1, SpreadKeep DEF K
  <2>4. Spread(Append(K, x), d) = Append(D, x)
    BY Zenon, <1>2, <1>4, <2>1, SpreadKeep DEF D
  <2> QED BY Zenon, <1>4, <1>6, <1>12, <2>2, <2>3, <2>4 DEF e
<1> QED BY Zenon, <1>9, <1>10, <1>11, <1>12

\* What is left of it when only the characters that cannot be printed go.
LEMMA PrintableAppend ==
  ASSUME NEW S, Alphabet(S), NEW s \in Seq(S), NEW x \in S
  PROVE  Printable(Append(s, x)) = IF x = "~" THEN Printable(s) ELSE Append(Printable(s), x)
<1> DEFINE d == Step(S, "~", <<>>)
<1>1. "\\" \in S /\ "~" \in S /\ Append(s, x) \in Seq(S) /\ <<>> \in Seq(S)
  BY DEF Alphabet
<1>2. d \in [S -> Seq(S)]
  BY Zenon, <1>1, StepType
<1>3. Printable(s) = Spread(s, d) /\ Printable(Append(s, x)) = Spread(Append(s, x), d)
  BY Zenon, <1>1, SubstituteSpreads DEF Printable
<1>4. d[x] = IF x = "~" THEN <<>> ELSE <<x>>
  BY Zenon DEF Step
<1> HIDE DEF d
<1>5. CASE x = "~"
  <2>1. d[x] = <<>>
    BY <1>4, <1>5
  <2> QED BY Zenon, <1>2, <1>3, <1>5, <2>1, SpreadDrop
<1>6. CASE x # "~"
  <2>1. d[x] = <<x>>
    BY <1>4, <1>6
  <2>2. Spread(Append(s, x), d) = Append(Spread(s, d), x)
    BY Zenon, <1>2, <2>1, SpreadKeep
  <2> QED BY Zenon, <1>3, <1>6, <2>2
<1> QED BY Zenon, <1>5, <1>6

\* The reader enters an escape.
LEMMA Enters ==
  ASSUME NEW r
  PROVE  ReadChar(<<FALSE, FALSE, r>>, "\\") = <<FALSE, TRUE, r>>
BY DEF ReadChar

\* The reader takes the escaped character.
LEMMA Leaves ==
  ASSUME NEW r, NEW c
  PROVE  ReadChar(<<FALSE, TRUE, r>>, c) = <<FALSE, FALSE, Append(r, c)>>
BY DEF ReadChar

\* The reader takes any other character as it is.
LEMMA Takes ==
  ASSUME NEW r, NEW c, c \notin {"\\", "q"}
  PROVE  ReadChar(<<FALSE, FALSE, r>>, c) = <<FALSE, FALSE, Append(r, c)>>
BY DEF ReadChar

\* The reader is never left within an escape, and has read what can be printed.
LEMMA ReadsBack ==
  ASSUME NEW S, Alphabet(S), NEW s \in Seq(S)
  PROVE  After(sanitizeForYAML(s)) = <<FALSE, FALSE, Printable(s)>>
<1> DEFINE T == {u \in Seq(S) : After(sanitizeForYAML(u)) = <<FALSE, FALSE, Printable(u)>>}
<1>1. <<>> \in T
  <2>1. <<>> \in Seq(S)
    OBVIOUS
  <2>2. sanitizeForYAML(<<>>) = <<>> /\ Printable(<<>>) = <<>>
    <3>1. Printable(<<>>) = <<>> /\ Escape(<<>>, "\\") = <<>> /\ Escape(<<>>, "q") = <<>>
      BY SpreadNil DEF Printable, Escape, Substitute
    <3> QED BY Zenon, <3>1 DEF sanitizeForYAML
  <2> QED BY Zenon, <2>1, <2>2, AfterNil DEF Start
<1>2. ASSUME NEW u \in T, NEW x \in S PROVE Append(u, x) \in T
  <2> DEFINE t == sanitizeForYAML(u)
             v == sanitizeForYAML(Append(u, x))
             p == Printable(u)
             e == "\\"
  <2>1. u \in Seq(S) /\ Append(u, x) \in Seq(S) /\ After(t) = <<FALSE, FALSE, p>>
    <3>1. u \in Seq(S) /\ After(t) = <<FALSE, FALSE, p>>
      BY Zenon, <1>2
    <3>2. Append(u, x) \in Seq(S)
      BY <3>1
    <3> QED BY Zenon, <3>1, <3>2
  <2>2. t \in Seq(S)
    BY Zenon, <2>1, SanitizeSpreads
  <2>3. /\ x \in {e, "q"} => v = Append(Append(t, e), x)
        /\ x = "~" => v = t
        /\ x \notin {e, "q", "~"} => v = Append(t, x)
    BY Zenon, <2>1, SanitizeAppend
  <2>4. Printable(Append(u, x)) = IF x = "~" THEN p ELSE Append(p, x)
    BY Zenon, <2>1, PrintableAppend
  <2>5. e \in S /\ Append(t, e) \in Seq(S)
    <3>1. e \in S
      BY DEF Alphabet
    <3> HIDE DEF t, e
    <3> QED BY <2>2, <3>1
  <2>6. e # "~" /\ "q" # "~"
    OBVIOUS
  <2>7. After(Append(Append(t, e), x)) = <<FALSE, FALSE, Append(p, x)>>
    <3>1. After(Append(t, e)) = <<FALSE, TRUE, p>>
      BY Zenon, <2>1, <2>2, <2>5, AfterAppend, Enters
    <3> QED BY Zenon, <2>5, <3>1, AfterAppend, Leaves
  <2>8. x \notin {e, "q"} => After(Append(t, x)) = <<FALSE, FALSE, Append(p, x)>>
    <3>1. After(Append(t, x)) = ReadChar(After(t), x)
      BY Zenon, <2>2, AfterAppend
    <3>2. After(t) = <<FALSE, FALSE, p>>
      BY Zenon, <2>1
    <3>3. x \notin {e, "q"} => ReadChar(<<FALSE, FALSE, p>>, x) = <<FALSE, FALSE, Append(p, x)>>
      BY Zenon, Takes
    <3> QED BY Zenon, <3>1, <3>2, <3>3
  <2> HIDE DEF t, v, p, e
  <2>9. After(v) = <<FALSE, FALSE, Printable(Append(u, x))>>
    <3>1. CASE x \in {e, "q"}
      BY Zenon, <2>3, <2>4, <2>6, <2>7, <3>1
    <3>2. CASE x = "~"
      BY Zenon, <2>1, <2>3, <2>4, <3>2
    <3>3. CASE x \notin {e, "q", "~"}
      BY Zenon, <2>3, <2>4, <2>8, <3>3
    <3> QED BY Zenon, <3>1, <3>2, <3>3
  <2> QED BY Zenon, <2>1, <2>9 DEF v
<1>3. T \in SUBSET Seq(S)
  OBVIOUS
<1> HIDE DEF T
<1>4. T = Seq(S)
  BY Zenon, <1>1, <1>2, <1>3, AllSequences
<1> QED BY Zenon, <1>4 DEF T

\* The parameters of a manifest that is checked: an instance ID and a value are
\* the plain one or one of those that vary.
LEMMA AgentIs ==
  ASSUME NEW g \in Agents
  PROVE  (g.id = <<"a">> \/ g.id \in IDs) /\ (g.value = <<>> \/ g.value \in Texts)
<1> DEFINE ByID == {[Plain EXCEPT !.id = id] : id \in IDs}
           ByValue == {[Plain EXCEPT !.value = s] : s \in Texts}
           ByBlocked == {[Plain EXCEPT !.blocked = b] :
                           b \in Commands \X Separators \X Commands \X (Separators \cup {<<>>})}
           BySSO == {[Plain EXCEPT !.sso = p[1], !.client = p[2]] : p \in BOOLEAN \X {"", "id"}}
<1>1. g \in ByID \cup ByValue \cup ByBlocked \cup BySSO
  BY Zenon DEF Agents
<1>2. CASE g \in ByID
  BY Zenon, <1>2 DEF Plain
<1>3. CASE g \in ByValue
  BY Zenon, <1>3 DEF Plain
<1>4. CASE g \in ByBlocked
  BY Zenon, <1>4 DEF Plain
<1>5. CASE g \in BySSO
  BY Zenon, <1>5 DEF Plain
<1> HIDE DEF ByID, ByValue, ByBlocked, BySSO
<1> QED BY Zenon, <1>1, <1>2, <1>3, <1>4, <1>5

\* A value of any length and characters reads back from the double quotes of the
\* manifest as sanitizeForYAML took it, without what is not printable.
THEOREM QuotedValuesReadBack == building \subseteq Agents => QuotedReadsBack
<1>1. ASSUME NEW g \in Agents PROVE g.value \in Seq(Range(g.value))
  <2>1. g.value = <<>> \/ g.value \in Texts
    BY Zenon, AgentIs
  <2>2. <<>> \in Seq(Range(<<>>))
    OBVIOUS
  <2> QED BY Zenon, <2>1, <2>2, StringAssumption
<1>2. ASSUME NEW s, s \in Seq(Range(s)) PROVE Unquote(sanitizeForYAML(s)) = Printable(s)
  <2> DEFINE S == Range(s) \cup {"\\", "q", "~"}
  <2>1. s \in Seq(S) /\ Alphabet(S)
    BY <1>2, SeqMonotonic DEF Alphabet
  <2>2. After(sanitizeForYAML(s)) = <<FALSE, FALSE, Printable(s)>>
    BY Zenon, <2>1, ReadsBack
  <2>3. Unquote(sanitizeForYAML(s)) = After(sanitizeForYAML(s))[3]
    BY DEF Unquote, After
  <2> QED BY <2>2, <2>3
<1> QED BY Zenon, <1>1, <1>2 DEF QuotedReadsBack

-----------------------------------------------------------------------------
(* Hostnames.                                                              *)

\* The last character.
End(s) == s[Len(s)]

\* A set of positions of a sequence has a greatest element.
LEMMA MaxExists ==
  ASSUME NEW n \in Nat, NEW K \in SUBSET (1..n), K # {}
  PROVE  Max(K) \in K /\ \A j \in K : Max(K) >= j
<1> DEFINE T == {n - i : i \in K}
<1>1. T \subseteq Nat /\ T # {}
  <2>1. \A i \in K : n - i \in Nat
    OBVIOUS
  <2>2. PICK i : i \in K
    OBVIOUS
  <2>3. n - i \in T
    BY <2>2
  <2>4. QED BY <2>1, <2>3
<1>2. PICK x \in T : \A y \in T : ~ (<<y, x>> \in OpToRel(<, Nat))
  BY <1>1, NatLessThanWellFounded, WFMin
<1>3. PICK i \in K : x = n - i
  OBVIOUS
<1>4. ASSUME NEW j \in K PROVE i >= j
  <2>1. n - j \in T /\ n - j \in Nat /\ x \in Nat
    BY <1>1
  <2>2. ~(n - j < x)
    BY <1>2, <2>1 DEF OpToRel
  <2>3. QED BY <1>3, <2>1, <2>2
<1>5. QED BY <1>4 DEF Max

\* And a least one.
LEMMA MinExists ==
  ASSUME NEW n \in Nat, NEW K \in SUBSET (1..n), K # {}
  PROVE  Min(K) \in K
<1>1. K \in SUBSET Nat
  OBVIOUS
<1>2. PICK i \in K : \A j \in K : i <= j
  BY Zenon, <1>1, Least
<1> QED BY Zenon, <1>2 DEF Min

\* TrimRight takes hyphens off the end and nothing else: what it leaves begins
\* as before, does not end in a hyphen, and is only empty if nothing but
\* hyphens was there.
LEMMA Trimmed ==
  ASSUME NEW S, NEW s \in Seq(S)
  PROVE  /\ TrimRight(s) \in Seq(S) /\ Len(TrimRight(s)) <= Len(s)
         /\ TrimRight(s) # <<>> => TrimRight(s)[1] = s[1] /\ End(TrimRight(s)) # "-"
         /\ \A k \in 1..Len(s) : s[k] # "-" => TrimRight(s) # <<>>
<1> DEFINE keep == {i \in DOMAIN s : s[i] # "-"}
           m == Max(keep)
           t == TrimRight(s)
<1>1. Len(s) \in Nat /\ DOMAIN s = 1..Len(s)
  OBVIOUS
<1>2. t = IF keep = {} THEN <<>> ELSE SubSeq(s, 1, m)
  BY Zenon DEF TrimRight, Cut
<1>3. CASE keep = {}
  <2>1. t = <<>>
    BY Zenon, <1>2, <1>3
  <2>2. \A k \in 1..Len(s) : s[k] = "-"
    BY Zenon, <1>1, <1>3
  <2> HIDE DEF t, keep
  <2> QED BY <1>1, <2>1, <2>2 DEF t
<1>4. CASE keep # {}
  <2>1. keep \in SUBSET (1..Len(s))
    BY Zenon, <1>1
  <2>2. m \in keep
    BY Zenon, <1>1, <1>4, <2>1, MaxExists
  <2>3. m \in 1..Len(s) /\ s[m] # "-"
    BY Zenon, <1>1, <2>2
  <2>4. t = SubSeq(s, 1, m)
    BY Zenon, <1>2, <1>4
  <2> HIDE DEF t, keep, m
  <2>5. t \in Seq(S) /\ Len(t) = m /\ t[1] = s[1] /\ t[m] = s[m]
    BY <1>1, <2>3, <2>4
  <2>6. End(t) # "-" /\ Len(t) <= Len(s) /\ t # <<>>
    BY <1>1, <2>3, <2>5 DEF End
  <2> QED BY Zenon, <2>5, <2>6 DEF t
<1> QED BY Zenon, <1>3, <1>4

\* Trim leaves no c at the end, and something if any other character was there.
LEMMA TrimEnds ==
  ASSUME NEW S, NEW s \in Seq(S), NEW c
  PROVE  /\ Trim(s, c) \in Seq(S)
         /\ \A k \in 1..Len(s) : s[k] # c => Trim(s, c) # <<>> /\ End(Trim(s, c)) # c
<1> DEFINE keep == {i \in DOMAIN s : s[i] # c}
           a == Min(keep)
           b == Max(keep)
           t == Trim(s, c)
<1>1. Len(s) \in Nat /\ DOMAIN s = 1..Len(s)
  OBVIOUS
<1>2. t = IF keep = {} THEN <<>> ELSE SubSeq(s, a, b)
  BY Zenon DEF Trim
<1>3. CASE keep = {}
  <2>1. t = <<>>
    BY Zenon, <1>2, <1>3
  <2>2. \A k \in 1..Len(s) : s[k] = c
    BY Zenon, <1>1, <1>3
  <2> HIDE DEF t, keep
  <2> QED BY <1>1, <2>1, <2>2 DEF t
<1>4. CASE keep # {}
  <2>1. keep \in SUBSET (1..Len(s))
    BY Zenon, <1>1
  <2>2. a \in keep /\ b \in keep /\ b >= a
    BY Zenon, <1>1, <1>4, <2>1, MinExists, MaxExists
  <2>3. a \in 1..Len(s) /\ b \in 1..Len(s) /\ s[b] # c
    BY Zenon, <1>1, <2>2
  <2>4. t = SubSeq(s, a, b)
    BY Zenon, <1>2, <1>4
  <2> HIDE DEF t, keep, a, b
  <2>5. t \in Seq(S) /\ Len(t) = (b - a) + 1 /\ t[(b - a) + 1] = s[b] /\ t # <<>>
    BY <1>1, <2>2, <2>3, <2>4
  <2> QED BY Zenon, <2>3, <2>5 DEF t, End
<1> QED BY Zenon, <1>3, <1>4

\* What is left of a string when only valid characters stay.
LEMMA ValidIs ==
  ASSUME NEW S, NEW s \in Seq(S)
  PROVE  Valid(s) \in Seq({"a", "b", "-"}) /\ Range(Valid(s)) = Range(s) \cap {"a", "b", "-"}
<1> DEFINE A == {"a", "b", "-"}
           v == Valid(s)
<1>1. v \in Seq(S) /\ Range(v) = Range(s) \cap A
  BY Zenon, SiftType, SiftRange DEF Valid
<1> HIDE DEF A, v
<1>2. v \in Seq(A)
  <2>1. \A i \in 1..Len(v) : v[i] \in A
    <3>1. \A i \in 1..Len(v) : v[i] \in Range(v)
      BY <1>1 DEF Range
    <3> QED BY Zenon, <1>1, <3>1
  <2>2. Len(v) \in Nat /\ v = [i \in 1..Len(v) |-> v[i]]
    BY <1>1
  <2>3. v \in [1..Len(v) -> A]
    BY Zenon, <2>1, <2>2
  <2> QED BY <2>2, <2>3
<1> QED BY Zenon, <1>1, <1>2 DEF A, v

\* A replacement changes no length.
LEMMA Replaced ==
  ASSUME NEW S, NEW s \in Seq(S), NEW x, NEW y
  PROVE  ReplaceAll(s, x, y) \in Seq(S \cup {y}) /\ Len(ReplaceAll(s, x, y)) = Len(s)
<1> DEFINE n == Len(s)
           r == ReplaceAll(s, x, y)
           V == S \cup {y}
<1>1. n \in Nat /\ \A i \in 1..n : s[i] \in V
  OBVIOUS
<1>2. r = [i \in 1..n |-> IF s[i] = x THEN y ELSE s[i]]
  <2>1. DOMAIN s = 1..n
    OBVIOUS
  <2> QED BY Zenon, <2>1 DEF ReplaceAll
<1>3. y \in V
  OBVIOUS
<1> HIDE DEF V
<1>4. r \in [1..n -> V]
  BY Zenon, <1>1, <1>2, <1>3
<1>5. r \in Seq(V) /\ Len(r) = n
  BY <1>1, <1>4
<1> QED BY Zenon, <1>5 DEF V


\* Lower case.
LEMMA Lowered ==
  ASSUME NEW S, NEW s \in Seq(S)
  PROVE  /\ ToLower(s) \in Seq(S \cup {"a"} \cup {"b"}) /\ Len(ToLower(s)) = Len(s)
         /\ \A i \in 1..Len(s) : s[i] \in {"a", "b", "A", "B"} => ToLower(s)[i] \in {"a", "b"}
<1> DEFINE t == ReplaceAll(s, "A", "a")
           u == ReplaceAll(t, "B", "b")
<1>1. t \in Seq(S \cup {"a"}) /\ Len(t) = Len(s)
  BY Zenon, Replaced
<1>2. u \in Seq(S \cup {"a"} \cup {"b"}) /\ Len(u) = Len(t)
  <2> DEFINE W == S \cup {"a"}
  <2>1. t \in Seq(W)
    BY Zenon, <1>1
  <2> HIDE DEF t, W
  <2>2. u \in Seq(W \cup {"b"}) /\ Len(u) = Len(t)
    BY Zenon, <2>1, Replaced
  <2> QED BY Zenon, <2>2 DEF W
<1>10. \A i \in 1..Len(s) : t[i] = IF s[i] = "A" THEN "a" ELSE s[i]
  <2>1. DOMAIN s = 1..Len(s)
    OBVIOUS
  <2> QED BY Zenon, <2>1 DEF ReplaceAll
<1>11. \A i \in 1..Len(t) : u[i] = IF t[i] = "B" THEN "b" ELSE t[i]
  <2> HIDE DEF t
  <2>1. DOMAIN t = 1..Len(t)
    BY <1>1
  <2> QED BY Zenon, <2>1 DEF ReplaceAll
<1>3. ToLower(s) = u
  BY Zenon DEF ToLower
<1> HIDE DEF t, u
<1>4. \A i \in 1..Len(s) : s[i] \in {"a", "b", "A", "B"} => u[i] \in {"a", "b"}
  BY <1>1, <1>10, <1>11
<1> QED BY Zenon, <1>1, <1>2, <1>3, <1>4

\* What is left of an instance ID that begins with a letter or a digit is not
\* empty and does not end in a hyphen.
LEMMA SanitizedID ==
  ASSUME NEW S, NEW id \in Seq(S), id # <<>>, id[1] \in {"a", "b", "A", "B"}
  PROVE  /\ sanitizedID(id) \in Seq({"a", "b", "-"})
         /\ sanitizedID(id) # <<>> /\ End(sanitizedID(id)) # "-"
<1> DEFINE t == ToLower(id)
           v == Valid(t)
           V == S \cup {"a"} \cup {"b"}
<1>1. t \in Seq(V) /\ Len(t) = Len(id)
  BY Zenon, Lowered
<1>2. 1 \in 1..Len(id)
  OBVIOUS
<1>3. t[1] \in {"a", "b"}
  BY Zenon, <1>2, Lowered
<1>4. v \in Seq({"a", "b", "-"}) /\ Range(v) = Range(t) \cap {"a", "b", "-"}
  BY Zenon, <1>1, ValidIs
<1> HIDE DEF t, v, V
<1>5. t[1] \in Range(t)
  BY <1>1, <1>2 DEF Range
<1>6. t[1] \in Range(v)
  BY Zenon, <1>3, <1>4, <1>5
<1>7. PICK k \in 1..Len(v) : v[k] = t[1]
  BY <1>4, <1>6 DEF Range
<1>8. v[k] # "-"
  BY <1>3, <1>7
<1>9. Trim(v, "-") \in Seq({"a", "b", "-"}) /\ Trim(v, "-") # <<>> /\ End(Trim(v, "-")) # "-"
  BY Zenon, <1>4, <1>8, TrimEnds
<1> QED BY Zenon, <1>9 DEF sanitizedID, t, v

\* What is left of an owner is made of valid characters.
LEMMA SanitizedOwner ==
  ASSUME NEW S, NEW o \in Seq(S)
  PROVE  sanitizeHostname(o) \in Seq({"a", "b", "-"})
<1> DEFINE t == ToLower(o)
           V == S \cup {"a"} \cup {"b"}
           at == {i \in DOMAIN t : t[i] = "@"}
           u == BeforeAt(t)
           r == ReplaceAll(u, ".", "-")
<1>1. t \in Seq(V)
  BY Zenon, Lowered
<1>2. u \in Seq(V)
  <2>1. u = IF at = {} THEN t ELSE SubSeq(t, 1, Min(at) - 1)
    BY Zenon DEF BeforeAt, Cut
  <2>2. CASE at = {}
    BY Zenon, <1>1, <2>1, <2>2
  <2>3. CASE at # {}
    <3>1. Len(t) \in Nat /\ DOMAIN t = 1..Len(t)
      <4> HIDE DEF t, V
      <4> QED BY <1>1
    <3>2. at \in SUBSET (1..Len(t))
      BY Zenon, <3>1
    <3>3. Min(at) \in 1..Len(t)
      BY Zenon, <2>3, <3>1, <3>2, MinExists
    <3>4. u = SubSeq(t, 1, Min(at) - 1)
      BY Zenon, <2>1, <2>3
    <3> DEFINE m == Min(at)
    <3> HIDE DEF t, V, at, u, m
    <3>5. SubSeq(t, 1, m - 1) \in Seq(V)
      BY <1>1, <3>1, <3>3 DEF m
    <3> QED BY Zenon, <3>4, <3>5 DEF m
  <2> QED BY Zenon, <2>2, <2>3
<1>3. r \in Seq(V \cup {"-"})
  BY Zenon, <1>2, Replaced
<1>4. Valid(r) \in Seq({"a", "b", "-"})
  BY Zenon, <1>3, ValidIs
<1>5. Trim(Valid(r), "-") \in Seq({"a", "b", "-"})
  BY Zenon, <1>4, TrimEnds
<1> QED BY Zenon, <1>5 DEF sanitizeHostname

\* A cut leaves at most n characters.
LEMMA CutLabelShort ==
  ASSUME NEW S, NEW s \in Seq(S), NEW n \in Nat
  PROVE  CutLabel(s, n) \in Seq(S) /\ Len(CutLabel(s, n)) <= n
<1>1. CASE Len(s) <= n
  BY <1>1 DEF CutLabel
<1>2. CASE Len(s) > n
  <2> DEFINE t == Cut(s, n)
             keep == {i \in DOMAIN t : t[i] # "-"}
  <2>1. t \in Seq(S) /\ Len(t) = n
    BY <1>2 DEF Cut
  <2>2. CutLabel(s, n) = IF keep = {} THEN <<>> ELSE Cut(t, Max(keep))
    BY <1>2 DEF CutLabel, TrimRight
  <2> HIDE DEF t
  <2>3. keep \in SUBSET (1..n)
    BY <2>1
  <2>4. CASE keep = {}
    BY <2>2, <2>4
  <2>5. CASE keep # {}
    <3>1. Max(keep) \in 1..n
      BY <2>3, <2>5, MaxExists
    <3> HIDE DEF keep
    <3>2. Cut(t, Max(keep)) \in Seq(S) /\ Len(Cut(t, Max(keep))) = Max(keep)
      BY <2>1, <3>1 DEF Cut
    <3>3. QED BY <2>2, <2>5, <3>1, <3>2
  <2>6. QED BY <2>4, <2>5
<1>3. QED BY <1>1, <1>2

\* A hostname of which nothing is cut.
Host(o, id) == Prefix \o o \o <<"-">> \o id

\* The length of a hostname, and where the ID is in it.
LEMMA Joined ==
  ASSUME NEW S, NEW o \in Seq(S), NEW id \in Seq(S)
  PROVE  /\ Len(Host(o, id)) = 4 + Len(o) + Len(id)
         /\ \A k \in 1..Len(id) : Host(o, id)[4 + Len(o) + k] = id[k]
BY DEF Host, Prefix

\* The whole ID ends the hostname.
LEMMA KeepsID ==
  ASSUME NEW S, NEW owner \in Seq(S), NEW id \in Seq(S), Fits(id)
  PROVE  \E o \in Seq(S) :
           uniqueRouteHostname(owner, id) = Host(o, id)
<1> DEFINE o == CutLabel(owner, OwnerRoom(Len(id)))
           h == Host(o, id)
<1>1. Len(id) \in Nat /\ LabelMax \in Nat /\ Len(id) <= LabelMax - 5
  BY LabelAssumption DEF Fits
<1>2. OwnerRoom(Len(id)) = LabelMax - 4 - Len(id)
  <2> DEFINE k == LabelMax - 4 - Len(id)
  <2>1. k \in Nat /\ k >= 1
    BY <1>1
  <2> HIDE DEF k
  <2>2. Max({1, k}) = k
    BY <2>1 DEF Max
  <2>3. QED BY <2>2 DEF OwnerRoom, k
<1>3. o \in Seq(S) /\ Len(o) <= LabelMax - 4 - Len(id)
  BY <1>1, <1>2, CutLabelShort
<1> HIDE DEF o
<1>4. Len(h) = 4 + Len(o) + Len(id)
  BY <1>3, Joined
<1>5. Len(o) \in Nat
  BY <1>3
<1>6. CutLabel(h, LabelMax) = h
  BY <1>1, <1>3, <1>4, <1>5 DEF CutLabel
<1>7. uniqueRouteHostname(owner, id) = CutLabel(h, LabelMax)
  BY DEF uniqueRouteHostname, Fits, Host, o
<1>8. QED BY <1>3, <1>6, <1>7

\* Hostnames of different instances differ, whoever owns them, for every label
\* size: as long as the IDs are labels of one length with five characters to
\* spare, uniqueRouteHostname cuts the owner and never the ID.
THEOREM UniqueHostnames ==
  ASSUME NEW S, NEW o1 \in Seq(S), NEW o2 \in Seq(S), NEW i \in Seq(S), NEW j \in Seq(S),
         Fits(i), Fits(j), Len(i) = Len(j),
         uniqueRouteHostname(o1, i) = uniqueRouteHostname(o2, j)
  PROVE  i = j
<1>1. PICK p \in Seq(S) : uniqueRouteHostname(o1, i) = Host(p, i)
  BY KeepsID
<1>2. PICK q \in Seq(S) : uniqueRouteHostname(o2, j) = Host(q, j)
  BY KeepsID
<1>3. Host(p, i) = Host(q, j)
  BY <1>1, <1>2
<1>4. /\ Len(Host(p, i)) = 4 + Len(p) + Len(i)
      /\ \A k \in 1..Len(i) : Host(p, i)[4 + Len(p) + k] = i[k]
  BY Joined
<1>5. /\ Len(Host(q, j)) = 4 + Len(q) + Len(j)
      /\ \A k \in 1..Len(j) : Host(q, j)[4 + Len(q) + k] = j[k]
  BY Joined
<1>6. Len(p) \in Nat /\ Len(q) \in Nat /\ Len(i) \in Nat
  OBVIOUS
<1>7. Len(p) = Len(q)
  BY <1>3, <1>4, <1>5, <1>6
<1>8. ASSUME NEW k \in 1..Len(i) PROVE i[k] = j[k]
  BY <1>3, <1>4, <1>5, <1>7
<1>9. QED BY <1>8, SeqEqual
\* A cut leaves no hyphen at the end of what began with another character.
LEMMA CutLabelEnds ==
  ASSUME NEW S, NEW s \in Seq(S), NEW n \in Nat, n >= 1, s # <<>>, s[1] # "-", End(s) # "-"
  PROVE  End(CutLabel(s, n)) # "-"
<1>1. CASE Len(s) <= n
  BY <1>1 DEF CutLabel
<1>2. CASE Len(s) > n
  <2> DEFINE t == Cut(s, n)
  <2>1. t \in Seq(S) /\ 1 \in 1..Len(t) /\ t[1] # "-"
    BY <1>2 DEF Cut
  <2>2. TrimRight(t) # <<>> /\ End(TrimRight(t)) # "-"
    BY Zenon, <2>1, Trimmed
  <2> QED BY <1>2, <2>2 DEF CutLabel
<1> QED BY <1>1, <1>2

\* OwnerRoom is a natural number, however long the ID.
LEMMA RoomIsNat == ASSUME NEW n \in Nat PROVE OwnerRoom(n) \in Nat
<1> DEFINE k == LabelMax - 4 - n
<1>1. k \in Int
  BY LabelAssumption
<1> HIDE DEF k
<1>2. Max({1, k}) \in Nat
  <2>1. CASE k <= 1
    <3>1. 1 \in {1, k} /\ \A y \in {1, k} : 1 >= y
      BY <1>1, <2>1
    <3>2. \A x \in {1, k} : (\A y \in {1, k} : x >= y) => x = 1
      BY <1>1, <2>1
    <3>3. Max({1, k}) = 1
      BY Zenon, <3>1, <3>2 DEF Max
    <3> QED BY <3>3
  <2>2. CASE k > 1
    <3>1. k \in {1, k} /\ \A y \in {1, k} : k >= y
      BY <1>1, <2>2
    <3>2. \A x \in {1, k} : (\A y \in {1, k} : x >= y) => x = k
      BY <1>1, <2>2
    <3>3. Max({1, k}) = k
      BY Zenon, <3>1, <3>2 DEF Max
    <3> QED BY <1>1, <2>2, <3>3
  <2> QED BY <1>1, <2>1, <2>2
<1> QED BY Zenon, <1>2 DEF OwnerRoom, k

\* A hostname of valid parts is a label.
LEMMA LabelOf ==
  ASSUME NEW owner \in Seq(LabelChars), NEW id, sanitizedID(id) \in Seq(LabelChars),
         sanitizedID(id) # <<>>, End(sanitizedID(id)) # "-"
  PROVE  /\ uniqueRouteHostname(owner, id) \in Seq(LabelChars)
         /\ Len(uniqueRouteHostname(owner, id)) <= LabelMax
         /\ End(uniqueRouteHostname(owner, id)) # "-"
<1> DEFINE sid == sanitizedID(id)
           o == CutLabel(owner, OwnerRoom(Len(sid)))
           C == LabelChars
           h == Host(o, sid)
<1>1. LabelMax \in Nat /\ LabelMax >= 1
  BY LabelAssumption
<1>2. sid \in Seq(C) /\ sid # <<>> /\ End(sid) # "-"
  OBVIOUS
<1>3. uniqueRouteHostname(owner, id) = CutLabel(h, LabelMax)
  BY Zenon DEF uniqueRouteHostname, Host
<1> HIDE DEF sid
<1>4. o \in Seq(C)
  <2>1. Len(sid) \in Nat
    BY <1>2
  <2> QED BY Zenon, <2>1, RoomIsNat, CutLabelShort
<1>5. "o" \in C /\ "c" \in C /\ "-" \in C
  BY DEF LabelChars
<1> HIDE DEF o, C
<1>6. Len(h) = 4 + Len(o) + Len(sid) /\ \A k \in 1..Len(sid) : h[4 + Len(o) + k] = sid[k]
  BY <1>2, <1>4, Joined
<1>7. h \in Seq(C) /\ h[1] = "o"
  BY <1>2, <1>4, <1>5 DEF Host, Prefix
<1>8. Len(sid) \in Nat /\ Len(sid) >= 1 /\ Len(o) \in Nat
  BY <1>2, <1>4
<1> HIDE DEF h
<1>9. End(h) = End(sid) /\ h # <<>>
  BY <1>6, <1>7, <1>8 DEF End
<1>10. h[1] # "-"
  BY <1>7
<1>11. CutLabel(h, LabelMax) \in Seq(C) /\ Len(CutLabel(h, LabelMax)) <= LabelMax
  BY Zenon, <1>1, <1>7, CutLabelShort
<1>12. End(CutLabel(h, LabelMax)) # "-"
  BY Zenon, <1>1, <1>2, <1>7, <1>9, <1>10, CutLabelEnds
<1> QED BY Zenon, <1>3, <1>11, <1>12 DEF C

\* The owner part of a hostname is never empty and of valid characters.
LEMMA OwnerPart ==
  ASSUME NEW o \in Owners
  PROVE  \E u \in Seq(LabelChars) : \A id : routeHostname(o, id) = uniqueRouteHostname(u, id)
<1> DEFINE A == {"a", "b", "-"}
           s == sanitizeHostname(o)
           u == IF s = <<>> THEN <<"a", "g", "e", "n", "t">> ELSE s
<1>1. o \in Seq(Range(o))
  BY Zenon, StringAssumption
<1>2. s \in Seq(A)
  BY Zenon, <1>1, SanitizedOwner
<1>3. A \subseteq LabelChars
  BY DEF LabelChars
<1> HIDE DEF A, s
<1>4. s \in Seq(LabelChars)
  BY Zenon, <1>2, <1>3, SeqMonotonic
<1>5. <<"a", "g", "e", "n", "t">> \in Seq(LabelChars)
  BY DEF LabelChars
<1>6. u \in Seq(LabelChars)
  BY Zenon, <1>4, <1>5
<1>7. \A id : routeHostname(o, id) = uniqueRouteHostname(u, id)
  BY Zenon DEF routeHostname, s
<1> QED BY Zenon, <1>6, <1>7

\* An instance ID of a manifest.
LEMMA AgentID ==
  ASSUME NEW g \in Agents
  PROVE  g.id \in Seq(Range(g.id)) /\ g.id # <<>> /\ g.id[1] \in {"a", "b", "A", "B"}
<1>1. CASE g.id \in IDs
  BY Zenon, <1>1, StringAssumption
<1>2. CASE g.id = <<"a">>
  <2> DEFINE p == <<"a">>
  <2>1. p \in Seq({"a"}) /\ Range(p) = {"a"} /\ p # <<>> /\ p[1] = "a"
    BY DEF Range
  <2> HIDE DEF p
  <2> QED BY Zenon, <1>2, <2>1 DEF p
<1> QED BY Zenon, <1>1, <1>2, AgentIs

\* A route's hostname is a DNS label, for every label size, owner and instance
\* ID that validInstanceID accepts.
THEOREM HostnamesAreLabels == building \subseteq Agents => HostnameIsLabel
<1> SUFFICES ASSUME NEW g \in Agents, NEW owner \in Owners
             PROVE  LET h == routeHostname(owner, g.id)
                    IN Len(h) <= LabelMax /\ End(h) # "-" /\ Range(h) \subseteq LabelChars
  BY Zenon DEF HostnameIsLabel, End
<1> DEFINE h == routeHostname(owner, g.id)
           A == {"a", "b", "-"}
<1>1. PICK u \in Seq(LabelChars) : \A id : routeHostname(owner, id) = uniqueRouteHostname(u, id)
  BY Zenon, OwnerPart
<1>2. /\ sanitizedID(g.id) \in Seq(A) /\ sanitizedID(g.id) # <<>>
      /\ End(sanitizedID(g.id)) # "-"
  BY Zenon, AgentID, SanitizedID
<1>3. A \subseteq LabelChars
  BY DEF LabelChars
<1> HIDE DEF A
<1>4. sanitizedID(g.id) \in Seq(LabelChars)
  BY Zenon, <1>2, <1>3, SeqMonotonic
<1>5. h \in Seq(LabelChars) /\ Len(h) <= LabelMax /\ End(h) # "-"
  BY Zenon, <1>1, <1>2, <1>4, LabelOf
<1> HIDE DEF h
<1>6. Range(h) \subseteq LabelChars
  BY <1>5 DEF Range
<1> QED BY Zenon, <1>5, <1>6 DEF h

\* No two instances share a hostname, whoever owns them and however long the
\* owners' names are, for IDs that are labels of one length with five characters
\* to spare.
THEOREM HostnamesAllDiffer == building \subseteq Agents => HostnamesDiffer
<1> SUFFICES ASSUME NEW g \in Agents, Fits(g.id), NEW id \in IDs \ {g.id}, Fits(id),
                    Len(id) = Len(g.id), NEW o \in Owners, NEW p \in Owners,
                    routeHostname(o, id) = routeHostname(p, g.id)
             PROVE  FALSE
  BY Zenon DEF HostnamesDiffer
<1> DEFINE C == LabelChars
           A == {"a", "b", "-"}
<1>1. PICK u \in Seq(C) : \A i : routeHostname(o, i) = uniqueRouteHostname(u, i)
  BY Zenon, OwnerPart
<1>2. PICK v \in Seq(C) : \A i : routeHostname(p, i) = uniqueRouteHostname(v, i)
  BY Zenon, OwnerPart
<1>3. A \subseteq C
  BY DEF LabelChars
<1> HIDE DEF A, C
<1>4. id \in Seq(A)
  <2>1. id \in Seq(Range(id)) /\ id # <<>> /\ id[1] \in {"a", "b", "A", "B"}
    BY Zenon, StringAssumption
  <2> QED BY Zenon, <2>1, SanitizedID DEF Fits, A
<1>5. g.id \in Seq(A)
  BY Zenon, AgentID, SanitizedID DEF Fits, A
<1>6. id \in Seq(C) /\ g.id \in Seq(C)
  BY Zenon, <1>3, <1>4, <1>5, SeqMonotonic
<1>7. uniqueRouteHostname(u, id) = uniqueRouteHostname(v, g.id)
  BY Zenon, <1>1, <1>2
<1>8. id = g.id
  BY Zenon, <1>1, <1>2, <1>6, <1>7, UniqueHostnames
<1> QED BY Zenon, <1>8
-----------------------------------------------------------------------------
(* The version gate.                                                       *)

\* The lexicographic comparison is the order of the day numbers.
LEMMA BelowIsEarlier ==
  ASSUME NEW y1 \in Nat, NEW m1 \in 1..12, NEW d1 \in 1..31,
         NEW y2 \in Nat, NEW m2 \in 1..12, NEW d2 \in 1..31
  PROVE  Below(<<y1, m1, d1>>, <<y2, m2, d2>>)
           <=> (y1 * 12 + m1) * 31 + d1 < (y2 * 12 + m2) * 31 + d2
BY DEF Below

\* What parseVersion makes of a version.
Parses(v) ==
  /\ ~Dated(v) => parseVersion(v) = Invalid
  /\ Dated(v) => \E y \in Nat, m \in 1..12, d \in 1..31 :
                   /\ parseVersion(v) = <<y, m, d>>
                   /\ DayNumber(v) = (y * 12 + m) * 31 + d

\* A version that is a date parses to its numbers; no other one parses.
LEMMA ParseDates == \A v \in Versions : Parses(v)
<1>1. ASSUME NEW v \in Broken PROVE Parses(v)
  <2>1. CASE v = <<>>
    BY <2>1 DEF Parses, Dated, parseVersion
  <2>2. CASE v = YearOnly
    BY <2>2 DEF YearOnly, Parses, Dated, parseVersion
  <2>3. CASE v = NoDay
    <3>1. Len(v) = 3 /\ v[3][1] = NaN
      BY <2>3 DEF NoDay
    <3>2. QED BY <3>1 DEF Parses, Dated, parseVersion
  <2>4. QED BY <2>1, <2>2, <2>3 DEF Broken
<1>2. ASSUME NEW x \in Years \X Months \X Days \X BOOLEAN \X BOOLEAN
      PROVE  Parses(Version(x))
  <2> DEFINE v == Version(x)
             y == x[1]
             m == x[2]
             d == x[3]
  <2>1. y \in Nat /\ m \in 1..12 /\ d \in 1..31
    BY DateAssumption
  <2>2. /\ Len(v) = 3 /\ v[1][1] = y /\ v[2][1] = m /\ v[3][1] = d
        /\ v[1][2] = FALSE /\ v[2][2] = x[4]
    BY DEF Version
  <2> HIDE DEF v, y, m, d
  <2>3. v[1][1] # NaN /\ v[2][1] # NaN /\ v[3][1] # NaN
    BY <2>1, <2>2 DEF NaN
  <2>4. ~Dated(v) => parseVersion(v) = Invalid
    BY <2>2, <2>3 DEF Dated, parseVersion
  <2>5. Dated(v) => parseVersion(v) = <<y, m, d>>
    BY <2>2, <2>3 DEF Dated, parseVersion
  <2>6. DayNumber(v) = (y * 12 + m) * 31 + d
    BY <2>2 DEF DayNumber
  <2>7. Parses(v)
    BY <2>1, <2>4, <2>5, <2>6 DEF Parses
  <2>8. QED BY <2>7 DEF v
<1>3. QED BY <1>1, <1>2, Zenon DEF Versions

\* ValidateVersion is the order of dates: for every set of years, months and
\* days Provision's gate admits exactly the dated versions no earlier than a
\* dated minimum.
THEOREM GateForEveryDate == starting \subseteq Configurations => GateIsDateOrder
<1>0. ASSUME NEW g \in Configurations PROVE g.minVersion \in Versions
  <2>1. <<>> \in Versions
    BY DEF Versions, Broken
  <2>2. g.minVersion \in Versions \/ g.minVersion \in Nil
    BY <1>0 DEF Configurations, Configuration
  <2>3. QED BY <2>1, <2>2 DEF Nil
<1> SUFFICES ASSUME NEW v \in Versions, NEW m \in Versions, m # <<>>
             PROVE  Admits(v, m) <=> /\ Dated(v) /\ Dated(m)
                                     /\ DayNumber(v) >= DayNumber(m)
  BY <1>0 DEF GateIsDateOrder
<1>1. Admits(v, m) <=> /\ v # <<>> /\ parseVersion(v) # Invalid
                       /\ parseVersion(m) # Invalid
                       /\ ~Below(parseVersion(v), parseVersion(m))
  BY DEF Admits, ValidateVersion
<1>2. CASE ~Dated(v) \/ ~Dated(m)
  BY <1>1, <1>2, ParseDates DEF Parses
<1>3. CASE Dated(v) /\ Dated(m)
  <2>1. PICK y1 \in Nat, m1 \in 1..12, d1 \in 1..31 :
          /\ parseVersion(v) = <<y1, m1, d1>>
          /\ DayNumber(v) = (y1 * 12 + m1) * 31 + d1
    BY <1>3, ParseDates DEF Parses
  <2>2. PICK y2 \in Nat, m2 \in 1..12, d2 \in 1..31 :
          /\ parseVersion(m) = <<y2, m2, d2>>
          /\ DayNumber(m) = (y2 * 12 + m2) * 31 + d2
    BY <1>3, ParseDates DEF Parses
  <2>3. parseVersion(v) # Invalid /\ parseVersion(m) # Invalid /\ v # <<>>
    BY <1>3, <2>1, <2>2 DEF Invalid, Dated
  <2>4. Below(parseVersion(v), parseVersion(m)) <=> DayNumber(v) < DayNumber(m)
    <3>1. Below(<<y1, m1, d1>>, <<y2, m2, d2>>)
            <=> (y1 * 12 + m1) * 31 + d1 < (y2 * 12 + m2) * 31 + d2
      BY BelowIsEarlier
    <3>2. QED BY <2>1, <2>2, <3>1, Zenon
  <2>5. DayNumber(v) \in Int /\ DayNumber(m) \in Int
    BY <2>1, <2>2
  <2>6. QED BY <1>1, <1>3, <2>3, <2>4, <2>5
<1>4. QED BY <1>2, <1>3

-----------------------------------------------------------------------------
(* Blocked commands.                                                       *)

\* The fields of a text: there is always a last one.
Fields(S) == Seq(Seq(S)) \ {<<>>}

\* A character leads from fields to fields.
LEMMA TakeType ==
  ASSUME NEW S, NEW p \in Fields(S), NEW x \in S, NEW c
  PROVE  Take(p, x, c) \in Fields(S)
<1> DEFINE n == Len(p)
           T == Seq(S)
<1>1. p \in Seq(T) /\ p # <<>>
  BY DEF Fields
<1>2. n \in Nat /\ n >= 1 /\ n \in 1..n /\ p[n] \in Seq(S)
  BY <1>1
<1>3. Append(p[n], x) \in T /\ <<>> \in T
  <2>1. Append(p[n], x) \in Seq(S)
    BY <1>2
  <2> QED BY <2>1
<1> HIDE DEF T
<1>4. Append(p, <<>>) \in Seq(T) /\ Append(p, <<>>) # <<>>
  BY <1>1, <1>3
<1> DEFINE y == Append(p[n], x)
           q == [p EXCEPT ![n] = y]
<1>5. q \in Seq(T) /\ q # <<>>
  <2> HIDE DEF y, n
  <2>1. y \in T
    BY <1>3 DEF y
  <2>2. q \in Seq(T) /\ Len(q) = Len(p)
    <3>1. p \in [1..n -> T] /\ DOMAIN p = 1..n
      BY <1>1 DEF n
    <3>2. q \in [1..n -> T]
      BY Zenon, <1>2, <2>1, <3>1
    <3> HIDE DEF q
    <3>3. q \in Seq(T) /\ Len(q) = n
      BY <1>2, <3>2
    <3> QED BY Zenon, <3>3 DEF n
  <2>3. Len(p) >= 1
    BY <1>2 DEF n
  <2> HIDE DEF q
  <2> QED BY <2>2, <2>3
<1>6. Take(p, x, c) = IF x = c THEN Append(p, <<>>) ELSE q
  BY Zenon DEF Take
<1> HIDE DEF q, y, n
<1> QED BY Zenon, <1>4, <1>5, <1>6 DEF Fields, T

\* g is the list of the fields after each of the first n characters.
Splits(s, c, n, g) == g[0] = <<<<>>>> /\ \A i \in 1..n : g[i] = Take(g[i - 1], s[i], c)

\* There is such a list.
LEMMA SplitsExist ==
  ASSUME NEW S, NEW s \in Seq(S), NEW c, NEW n \in 0..Len(s)
  PROVE  \E g \in [0..n -> Fields(S)] : Splits(s, c, n, g)
<1> DEFINE P(m) == \E g \in [0..m -> Fields(S)] : Splits(s, c, m, g)
           T == {m \in 0..Len(s) : ~P(m)}
<1> HIDE DEF P
<1> SUFFICES ASSUME T # {} PROVE FALSE
  BY DEF P
<1>0. T \subseteq Nat
  OBVIOUS
<1>1. PICK m \in T : \A k \in T : m <= k
  BY Zenon, <1>0, Least
<1>2. m # 0
  <2> DEFINE g == [i \in 0..0 |-> <<<<>>>>]
  <2>1. <<<<>>>> \in Fields(S)
    <3>1. <<>> \in Seq(S)
      OBVIOUS
    <3>2. <<<<>>>> \in Seq(Seq(S)) /\ <<<<>>>> # <<>>
      BY <3>1
    <3> QED BY Zenon, <3>2 DEF Fields
  <2>2. g \in [0..0 -> Fields(S)] /\ g[0] = <<<<>>>>
    BY <2>1
  <2>3. Splits(s, c, 0, g)
    BY <2>2 DEF Splits
  <2>4. P(0)
    BY Zenon, <2>2, <2>3 DEF P
  <2> QED BY <2>4
<1>3. m \in Nat /\ m >= 1 /\ m \in 1..Len(s) /\ m - 1 \in 0..Len(s) /\ m - 1 \notin T
  BY <1>0, <1>1, <1>2
<1>4. PICK k \in [0..(m - 1) -> Fields(S)] : Splits(s, c, m - 1, k)
  BY <1>3 DEF P
<1> DEFINE y == Take(k[m - 1], s[m], c)
           g == [i \in 0..m |-> IF i = m THEN y ELSE k[i]]
<1>5. y \in Fields(S)
  <2>1. k[m - 1] \in Fields(S) /\ s[m] \in S
    BY <1>3
  <2> QED BY Zenon, <2>1, TakeType
<1>6. \A i \in 0..m : i # m => i \in 0..(m - 1)
  BY <1>3
<1>7. g \in [0..m -> Fields(S)]
  <2> HIDE DEF y
  <2> QED BY Zenon, <1>5, <1>6
<1>8. Splits(s, c, m, g)
  <2>1. 0 \in 0..m /\ 0 # m
    BY <1>3
  <2>2. g[0] = <<<<>>>>
    BY Zenon, <1>4, <2>1 DEF Splits
  <2>3. ASSUME NEW i \in 1..m PROVE g[i] = Take(g[i - 1], s[i], c)
    <3>1. i \in 0..m /\ i - 1 \in 0..m /\ i - 1 # m /\ (i # m => i \in 1..(m - 1))
      BY <1>3
    <3>2. g[i - 1] = k[i - 1]
      BY Zenon, <3>1
    <3>3. CASE i = m
      BY Zenon, <3>1, <3>2, <3>3
    <3>4. CASE i # m
      BY Zenon, <1>4, <3>1, <3>2, <3>4 DEF Splits
    <3> QED BY <3>3, <3>4
  <2> HIDE DEF g
  <2> QED BY Zenon, <2>2, <2>3 DEF Splits
<1>9. P(m)
  BY Zenon, <1>7, <1>8 DEF P
<1> QED BY <1>9

\* g and k are such lists of texts that are the same up to n.
SplitAlike(s, t, c, n, g, k) == Splits(s, c, n, g) /\ Splits(t, c, n, k) /\ Agree(s, t, n)

\* There is only one: what comes later does not matter.
LEMMA SplitsUnique ==
  ASSUME NEW s, NEW t, NEW c, NEW n \in Nat, NEW g, NEW k, SplitAlike(s, t, c, n, g, k)
  PROVE  g[n] = k[n]
<1>00. Splits(s, c, n, g) /\ Splits(t, c, n, k) /\ \A i \in 1..n : s[i] = t[i]
  BY DEF SplitAlike, Agree
<1> DEFINE T == {i \in 0..n : g[i] # k[i]}
<1> SUFFICES ASSUME T # {} PROVE FALSE
  OBVIOUS
<1>0. T \subseteq Nat
  OBVIOUS
<1>1. PICK m \in T : \A i \in T : m <= i
  BY Zenon, <1>0, Least
<1>2. m # 0
  BY <1>00 DEF Splits
<1>3. m - 1 \in 0..n /\ m - 1 \notin T /\ m \in 1..n
  BY <1>0, <1>1, <1>2
<1>4. g[m] # k[m] /\ g[m - 1] = k[m - 1] /\ s[m] = t[m]
  BY <1>00, <1>3
<1> QED BY Zenon, <1>00, <1>3, <1>4 DEF Splits

\* The list of what Split has made.
SplitOut(S, s, c, g) ==
  g \in [0..Len(s) -> Fields(S)] /\ Splits(s, c, Len(s), g) /\ Split(s, c) = g[Len(s)]

\* There is such a list.
LEMMA SplitIs ==
  ASSUME NEW S, NEW s \in Seq(S), NEW c
  PROVE  \E g : SplitOut(S, s, c, g)
<1> DEFINE n == Len(s)
           Def(g) == g = [k \in 0..n |-> IF k = 0 THEN <<<<>>>> ELSE Take(g[k - 1], s[k], c)]
           d == CHOOSE g : Def(g)
<1>1. n \in Nat /\ n \in 0..Len(s)
  OBVIOUS
<1>2. Split(s, c) = d[n]
  BY Zenon DEF Split
<1>3. PICK g \in [0..n -> Fields(S)] : Splits(s, c, n, g)
  BY Zenon, <1>1, SplitsExist
<1> HIDE DEF d, n
<1>4. Def(g)
  <2>1. ASSUME NEW i \in 0..n
        PROVE  g[i] = IF i = 0 THEN <<<<>>>> ELSE Take(g[i - 1], s[i], c)
    <3>1. i = 0 \/ i \in 1..n
      BY <1>1
    <3> QED BY Zenon, <1>3, <3>1 DEF Splits
  <2>2. g = [i \in 0..n |-> g[i]]
    OBVIOUS
  <2> QED BY Zenon, <2>1, <2>2
<1>5. Def(d)
  BY Zenon, <1>4 DEF d
<1>6. ASSUME NEW i \in 0..n
      PROVE  d[i] = IF i = 0 THEN <<<<>>>> ELSE Take(d[i - 1], s[i], c)
  BY Zenon, <1>5
<1>7. Splits(s, c, n, d)
  <2>1. 0 \in 0..n /\ \A i \in 1..n : i \in 0..n /\ i # 0
    BY <1>1
  <2> QED BY Zenon, <1>6, <2>1 DEF Splits
<1>8. d[n] = g[n]
  <2>1. SplitAlike(s, s, c, n, d, g)
    BY Zenon, <1>3, <1>7 DEF SplitAlike, Agree
  <2> QED BY <1>1, <2>1, SplitsUnique
<1>9. SplitOut(S, s, c, g)
  BY Zenon, <1>2, <1>3, <1>8 DEF n, SplitOut
<1> QED BY Zenon, <1>9

\* The fields are sequences of characters.
LEMMA SplitType ==
  ASSUME NEW S, NEW s \in Seq(S), NEW c
  PROVE  Split(s, c) \in Fields(S)
<1> DEFINE n == Len(s)
<1>1. PICK g : SplitOut(S, s, c, g)
  BY Zenon, SplitIs
<1>2. n \in 0..n
  OBVIOUS
<1>3. g \in [0..n -> Fields(S)] /\ Split(s, c) = g[n]
  BY Zenon, <1>1 DEF SplitOut
<1> HIDE DEF n
<1> QED BY Zenon, <1>2, <1>3

\* Of nothing there is one field.
LEMMA SplitNil == ASSUME NEW c PROVE Split(<<>>, c) = <<<<>>>>
<1> DEFINE s == <<>>
<1>1. s \in Seq({}) /\ Len(s) = 0
  OBVIOUS
<1> HIDE DEF s
<1>2. PICK g : SplitOut({}, s, c, g)
  BY Zenon, <1>1, SplitIs
<1>3. Split(s, c) = <<<<>>>>
  BY Zenon, <1>1, <1>2 DEF SplitOut, Splits
<1> QED BY <1>3 DEF s

\* One more character is taken.
LEMMA SplitAppend ==
  ASSUME NEW S, NEW s \in Seq(S), NEW x \in S, NEW c
  PROVE  Split(Append(s, x), c) = Take(Split(s, c), x, c)
<1> DEFINE u == Append(s, x)
           n == Len(s)
           m == Len(u)
<1>1. /\ u \in Seq(S) /\ m = n + 1 /\ u[n + 1] = x /\ n \in Nat
      /\ \A i \in 1..n : u[i] = s[i]
  OBVIOUS
<1> HIDE DEF u
<1>2. n + 1 \in 1..m /\ (n + 1) - 1 = n /\ \A i \in 1..n : i \in 1..m
  BY <1>1
<1>4. PICK g : SplitOut(S, s, c, g)
  BY Zenon, SplitIs
<1>5. PICK k : SplitOut(S, u, c, k)
  BY Zenon, <1>1, SplitIs
<1>6. Splits(s, c, n, g) /\ Split(s, c) = g[n] /\ Splits(u, c, m, k) /\ Split(u, c) = k[m]
  BY Zenon, <1>4, <1>5 DEF SplitOut
<1> HIDE DEF n, m
<1>7. Splits(u, c, n, k) /\ k[n + 1] = Take(k[n], x, c)
  BY Zenon, <1>1, <1>2, <1>6 DEF Splits
<1>8. SplitAlike(s, u, c, n, g, k)
  BY Zenon, <1>1, <1>6, <1>7 DEF SplitAlike, Agree
<1>9. g[n] = k[n]
  BY <1>1, <1>8, SplitsUnique
<1>10. Split(u, c) = Take(Split(s, c), x, c)
  BY Zenon, <1>1, <1>6, <1>7, <1>9
<1> QED BY Zenon, <1>10 DEF u

\* What comes before the last field is left alone.
LEMMA TakeLater ==
  ASSUME NEW S, NEW p \in Fields(S), NEW q \in Fields(S), NEW x \in S, NEW c
  PROVE  Take(p \o q, x, c) = p \o Take(q, x, c)
<1> DEFINE T == Seq(S)
           n == Len(q)
           y == Append(q[n], x)
<1>1. p \in Seq(T) /\ q \in Seq(T) /\ q # <<>>
  BY DEF Fields
<1>2. n \in Nat /\ n >= 1 /\ q[n] \in T /\ Len(p) \in Nat
  BY <1>1
<1>3. y \in T /\ <<>> \in T
  <2>1. q[n] \in Seq(S)
    BY <1>2
  <2> QED BY <2>1
<1> HIDE DEF T, y
<1>4. /\ Append(p \o q, <<>>) = p \o Append(q, <<>>)
      /\ Len(p \o q) = Len(p) + n /\ (p \o q)[Len(p) + n] = q[n] /\ p \o q \in Seq(T)
  BY <1>1, <1>2, <1>3
<1>5. [p \o q EXCEPT ![Len(p) + n] = y] = p \o [q EXCEPT ![n] = y]
  <2> DEFINE word == p \o q
             e == [word EXCEPT ![Len(p) + n] = y]
             r == [q EXCEPT ![n] = y]
             m == Len(p) + n
  <2>1. DOMAIN word = 1..m /\ DOMAIN q = 1..n
    BY <1>1, <1>4
  <2>2. r \in Seq(T) /\ Len(r) = n /\ r[n] = y /\ \A i \in 1..n : i # n => r[i] = q[i]
    <3>1. r \in [1..n -> T]
      BY Zenon, <1>1, <1>3, <2>1, LenProperties
    <3>2. r[n] = y /\ \A i \in 1..n : i # n => r[i] = q[i]
      <4>1. n \in 1..n
        BY <1>2
      <4> QED BY Zenon, <2>1, <4>1
    <3> HIDE DEF r
    <3>3. r \in Seq(T) /\ Len(r) = n
      BY <1>2, <3>1
    <3> QED BY Zenon, <3>2, <3>3
  <2>3. e \in Seq(T) /\ Len(e) = m /\ e[m] = y /\ \A i \in 1..m : i # m => e[i] = word[i]
    <3>0. m \in Nat /\ m \in 1..m
      BY <1>2
    <3>1. e \in [1..m -> T]
      BY Zenon, <1>3, <1>4, <2>1, LenProperties
    <3>2. e[m] = y /\ \A i \in 1..m : i # m => e[i] = word[i]
      BY Zenon, <2>1, <3>0
    <3> HIDE DEF e, m
    <3>3. e \in Seq(T) /\ Len(e) = m
      BY <3>0, <3>1
    <3> QED BY Zenon, <3>2, <3>3
  <2> HIDE DEF e, r
  <2>4. p \o r \in Seq(T) /\ Len(p \o r) = m
    BY <1>1, <1>2, <2>2
  <2>5. ASSUME NEW i \in 1..m PROVE e[i] = (p \o r)[i]
    <3>1. CASE i = m
      <4>1. (p \o r)[m] = r[n]
        BY <1>1, <1>2, <2>2
      <4> QED BY Zenon, <2>2, <2>3, <3>1, <4>1
    <3>2. CASE i \in 1..Len(p)
      <4>1. i # m /\ (p \o r)[i] = p[i] /\ word[i] = p[i]
        BY <1>1, <1>2, <2>2, <3>2
      <4> QED BY Zenon, <2>3, <4>1
    <3>3. CASE i # m /\ i \notin 1..Len(p)
      <4> DEFINE j == i - Len(p)
      <4>1. j \in 1..n /\ j # n /\ i = Len(p) + j
        BY <1>2, <3>3
      <4> HIDE DEF j
      <4>2. (p \o r)[Len(p) + j] = r[j] /\ word[Len(p) + j] = q[j]
        BY <1>1, <1>2, <2>2, <4>1
      <4>3. r[j] = q[j] /\ e[i] = word[i]
        BY Zenon, <2>2, <2>3, <3>3, <4>1
      <4> QED BY Zenon, <4>1, <4>2, <4>3
    <3> QED BY <3>1, <3>2, <3>3
  <2> HIDE DEF m, word
  <2>6. e = p \o r
    BY <2>3, <2>4, <2>5, SeqEqual
  <2> QED BY Zenon, <2>6 DEF e, r, m, word
<1>6. CASE x = c
  BY Zenon, <1>4, <1>6 DEF Take
<1>7. CASE x # c
  <2>1. Take(q, x, c) = [q EXCEPT ![n] = y]
    BY Zenon, <1>7 DEF Take, y
  <2>2. Take(p \o q, x, c) = [p \o q EXCEPT ![Len(p) + n] = y]
    BY Zenon, <1>4, <1>7 DEF Take, y
  <2> QED BY Zenon, <1>5, <2>1, <2>2
<1> QED BY <1>6, <1>7

\* A separator splits a text in two.
LEMMA SplitAt ==
  ASSUME NEW S, NEW c \in S, NEW s \in Seq(S), NEW t \in Seq(S)
  PROVE  Split(Append(s, c) \o t, c) = Split(s, c) \o Split(t, c)
<1> DEFINE a == Append(s, c)
           T == {u \in Seq(S) : Split(a \o u, c) = Split(s, c) \o Split(u, c)}
           P == Split(s, c)
<1>0. P \in Fields(S)
  BY Zenon, SplitType
<1>1. a \in Seq(S)
  OBVIOUS
<1>2. <<>> \in T
  <2>1. Split(a, c) = Append(P, <<>>)
    <3>1. Split(a, c) = Take(P, c, c)
      BY Zenon, SplitAppend
    <3> QED BY Zenon, <3>1 DEF Take
  <2>2. a \o <<>> = a /\ <<>> \in Seq(S)
    BY <1>1
  <2> HIDE DEF P
  <2>3. Append(P, <<>>) = P \o <<<<>>>>
    BY <1>0 DEF Fields
  <2>4. Split(a \o <<>>, c) = P \o Split(<<>>, c)
    BY Zenon, <2>1, <2>2, <2>3, SplitNil
  <2> HIDE DEF a
  <2> QED BY Zenon, <2>2, <2>4 DEF P
<1>3. ASSUME NEW u \in T, NEW x \in S PROVE Append(u, x) \in T
  <2> u \in Seq(S) /\ Split(a \o u, c) = P \o Split(u, c)
    OBVIOUS
  <2> HIDE DEF T
  <2>1. a \o u \in Seq(S) /\ Append(u, x) \in Seq(S) /\ a \o Append(u, x) = Append(a \o u, x)
    <3> HIDE DEF a
    <3> QED BY <1>1
  <2> DEFINE word == a \o u
  <2>2. word \in Seq(S) /\ Split(word, c) = P \o Split(u, c)
    BY Zenon, <2>1
  <2> HIDE DEF word, a, P
  <2>3. Split(Append(word, x), c) = Take(Split(word, c), x, c)
    BY Zenon, <2>2, SplitAppend
  <2>4. Split(Append(u, x), c) = Take(Split(u, c), x, c)
    BY Zenon, SplitAppend
  <2>5. Split(u, c) \in Fields(S)
    BY Zenon, SplitType
  <2>6. Take(P \o Split(u, c), x, c) = P \o Take(Split(u, c), x, c)
    BY <1>0, <2>5, TakeLater
  <2>7. Split(a \o Append(u, x), c) = P \o Split(Append(u, x), c)
    BY Zenon, <2>1, <2>2, <2>3, <2>4, <2>6 DEF word
  <2> QED BY Zenon, <2>1, <2>7 DEF T, P
<1> HIDE DEF T, a
<1>4. T \subseteq Seq(S)
  BY DEF T
<1>5. T = Seq(S)
  BY Zenon, <1>2, <1>3, <1>4, AllSequences
<1>6. t \in T
  BY <1>5
<1> QED BY <1>6 DEF T, a

\* Without a separator there is one field.
LEMMA SplitWhole ==
  ASSUME NEW S, NEW c, c \notin S, NEW t \in Seq(S)
  PROVE  Split(t, c) = <<t>>
<1> DEFINE T == {u \in Seq(S) : Split(u, c) = <<u>>}
<1>1. <<>> \in T
  <2>1. <<>> \in Seq(S)
    OBVIOUS
  <2> QED BY Zenon, <2>1, SplitNil
<1>2. ASSUME NEW u \in T, NEW x \in S PROVE Append(u, x) \in T
  <2> u \in Seq(S) /\ Split(u, c) = <<u>> /\ x # c
    OBVIOUS
  <2> HIDE DEF T
  <2>1. Append(u, x) \in Seq(S)
    OBVIOUS
  <2>2. Split(Append(u, x), c) = Take(<<u>>, x, c)
    BY Zenon, SplitAppend
  <2> DEFINE p == <<u>>
             y == Append(u, x)
  <2>3. Len(p) = 1 /\ p[1] = u
    OBVIOUS
  <2>4. Take(p, x, c) = [p EXCEPT ![1] = y]
    BY Zenon, <2>3 DEF Take
  <2>5. [<<u>> EXCEPT ![1] = y] = <<y>>
    <3> HIDE DEF y
    <3> QED OBVIOUS
  <2>6. Split(Append(u, x), c) = <<Append(u, x)>>
    BY Zenon, <2>2, <2>4, <2>5
  <2> QED BY Zenon, <2>1, <2>6 DEF T
<1> HIDE DEF T
<1>3. T \subseteq Seq(S)
  BY DEF T
<1>4. T = Seq(S)
  BY Zenon, <1>1, <1>2, <1>3, AllSequences
<1>5. t \in T
  BY <1>4
<1> QED BY <1>5 DEF T

\* A text after another.
LEMMA TextConcat ==
  ASSUME NEW S, NEW s \in Seq(S), NEW t \in Seq(S), NEW f \in [S -> Seq(S)]
  PROVE  Spread(s \o t, f) = Spread(s, f) \o Spread(t, f)
<1>1. Over(S, S, s, f)
  BY Zenon DEF Over
<1> QED BY <1>1, SpreadConcat

\* What one character becomes.
LEMMA TextOne ==
  ASSUME NEW S, NEW x \in S, NEW f \in [S -> Seq(S)]
  PROVE  Spread(<<x>>, f) = f[x]
<1>1. <<>> \in Seq(S) /\ Append(<<>>, x) = <<x>> /\ <<>> \o f[x] = f[x]
  <2>1. f[x] \in Seq(S)
    BY Zenon
  <2> QED BY <2>1
<1>2. Spread(Append(<<>>, x), f) = Spread(<<>>, f) \o f[x]
  BY Zenon, <1>1, TextAppend
<1> QED BY Zenon, <1>1, <1>2, SpreadNil

\* The least element.
LEMMA MinIs ==
  ASSUME NEW K \in SUBSET Int, NEW m \in K, \A j \in K : m <= j
  PROVE  Min(K) = m
<1>1. \A x \in K : (\A y \in K : x <= y) => x = m
  OBVIOUS
<1> QED BY Zenon, <1>1 DEF Min

\* The greatest element.
LEMMA MaxIs ==
  ASSUME NEW K \in SUBSET Int, NEW m \in K, \A j \in K : m >= j
  PROVE  Max(K) = m
<1>1. \A x \in K : (\A y \in K : x >= y) => x = m
  OBVIOUS
<1> QED BY Zenon, <1>1 DEF Max

\* What has none of them at its ends stays.
LEMMA TrimStays ==
  ASSUME NEW S, NEW s \in Seq(S), NEW c, s # <<>>, s[1] # c, End(s) # c
  PROVE  Trim(s, c) = s
<1> DEFINE keep == {i \in DOMAIN s : s[i] # c}
           n == Len(s)
<1>1. n \in Nat /\ n >= 1 /\ DOMAIN s = 1..n /\ s[n] # c
  BY DEF End
<1>2. keep \in SUBSET Int /\ 1 \in keep /\ n \in keep /\ \A j \in keep : 1 <= j /\ n >= j
  BY <1>1
<1>3. Trim(s, c) = IF keep = {} THEN <<>> ELSE SubSeq(s, Min(keep), Max(keep))
  BY Zenon DEF Trim
<1>4. SubSeq(s, 1, n) = s
  OBVIOUS
<1> HIDE DEF keep, n
<1>5. Min(keep) = 1 /\ Max(keep) = n /\ keep # {}
  BY Zenon, <1>2, MinIs, MaxIs
<1> QED BY Zenon, <1>3, <1>4, <1>5

\* One before it goes.
LEMMA TrimBefore ==
  ASSUME NEW S, NEW s \in Seq(S), NEW c \in S, s # <<>>, s[1] # c, End(s) # c
  PROVE  Trim(<<c>> \o s, c) = s
<1> DEFINE t == <<c>> \o s
           keep == {i \in DOMAIN t : t[i] # c}
           n == Len(s)
<1>1. /\ n \in Nat /\ n >= 1 /\ DOMAIN t = 1..(n + 1) /\ t[1] = c
      /\ \A i \in 1..n : t[i + 1] = s[i]
  OBVIOUS
<1>2. t[2] # c /\ t[n + 1] # c
  <2>1. t[1 + 1] = s[1] /\ t[n + 1] = s[n]
    BY <1>1
  <2> QED BY <2>1 DEF End
<1>3. Trim(t, c) = IF keep = {} THEN <<>> ELSE SubSeq(t, Min(keep), Max(keep))
  BY Zenon DEF Trim
<1>4. SubSeq(t, 2, n + 1) = s
  OBVIOUS
<1> HIDE DEF t
<1>5. /\ keep \in SUBSET Int /\ 2 \in keep /\ n + 1 \in keep
      /\ \A j \in keep : 2 <= j /\ n + 1 >= j
  BY <1>1, <1>2
<1> HIDE DEF keep
<1>6. Min(keep) = 2 /\ Max(keep) = n + 1 /\ keep # {}
  BY Zenon, <1>5, MinIs, MaxIs
<1> QED BY Zenon, <1>3, <1>4, <1>6 DEF t

\* And nothing is left of one, or of none.
LEMMA TrimNothing == ASSUME NEW c PROVE Trim(<<>>, c) = <<>> /\ Trim(<<c>>, c) = <<>>
<1>1. {i \in DOMAIN <<>> : <<>>[i] # c} = {} /\ {i \in DOMAIN <<c>> : <<c>>[i] # c} = {}
  OBVIOUS
<1> QED BY Zenon, <1>1 DEF Trim
-----------------------------------------------------------------------------
\* The command in a field, if any.
Named(S) == [f \in Seq(S) |-> IF TrimSpace(f) = <<>> THEN <<>> ELSE <<TrimSpace(f)>>]

\* The commands in a text without line ends.
Cmds(S, t) == Spread(Split(t, ","), Named(S))

\* A command is a text.
LEMMA NamedType == ASSUME NEW S PROVE Named(S) \in [Seq(S) -> Seq(Seq(S))]
<1>1. ASSUME NEW f \in Seq(S)
      PROVE  (IF TrimSpace(f) = <<>> THEN <<>> ELSE <<TrimSpace(f)>>) \in Seq(Seq(S))
  <2> DEFINE t == TrimSpace(f)
             T == Seq(S)
  <2>1. t \in T
    BY Zenon, TrimEnds DEF TrimSpace
  <2> HIDE DEF t, T
  <2>2. <<t>> \in Seq(T) /\ <<>> \in Seq(T)
    BY <2>1
  <2> QED BY Zenon, <2>2 DEF t, T
<1> QED BY Zenon, <1>1 DEF Named

\* What is needed of the fields of a text.
LEMMA FieldsOver ==
  ASSUME NEW S, NEW t \in Seq(S)
  PROVE  Over(Seq(S), Seq(S), Split(t, ","), Named(S))
<1>1. Split(t, ",") \in Seq(Seq(S))
  BY Zenon, SplitType DEF Fields
<1> QED BY Zenon, <1>1, NamedType DEF Over

\* blockedCmds, with a function that does not depend on the text.
LEMMA CmdsAre ==
  ASSUME NEW S, NEW s, Normalized(s) \in Seq(S)
  PROVE  blockedCmds(s) = Cmds(S, Normalized(s))
<1> DEFINE p == Split(Normalized(s), ",")
           R == Range(p)
           h == [f \in R |-> IF TrimSpace(f) = <<>> THEN <<>> ELSE <<TrimSpace(f)>>]
           n == Named(S)
           T == Seq(S)
<1>1. blockedCmds(s) = Spread(p, h)
  BY Zenon DEF blockedCmds
<1>2. Over(T, T, p, n)
  BY Zenon, FieldsOver
<1>3. p \in Seq(T)
  BY Zenon, <1>2 DEF Over
<1> HIDE DEF p, T
<1>4. p \in Seq(R) /\ R \subseteq T
  BY <1>3 DEF Range
<1>5. \A f \in R : h[f] = n[f] /\ n[f] \in Seq(T)
  BY Zenon, <1>4, NamedType DEF Named, T
<1>6. h \in [R -> Seq(T)]
  BY Zenon, <1>5
<1> HIDE DEF h, n
<1>7. SameOn(R, T, T, p, h, n)
  BY Zenon, <1>2, <1>4, <1>5, <1>6 DEF SameOn, Over
<1> HIDE DEF R
<1>8. Spread(p, h) = Spread(p, n)
  BY <1>7, SpreadSame
<1> QED BY Zenon, <1>1, <1>8 DEF Cmds, p, n

\* The characters include the comma.
HasComma(S) == "," \in S

\* The commands before and after a comma.
LEMMA CmdsAt ==
  ASSUME NEW S, HasComma(S), NEW s \in Seq(S), NEW t \in Seq(S)
  PROVE  Cmds(S, Append(s, ",") \o t) = Cmds(S, s) \o Cmds(S, t)
<1> DEFINE p == Split(s, ",")
           q == Split(t, ",")
           T == Seq(S)
           n == Named(S)
<1>1. Split(Append(s, ",") \o t, ",") = p \o q
  BY Zenon, SplitAt DEF HasComma
<1>2. p \in Seq(T) /\ q \in Seq(T) /\ n \in [T -> Seq(T)]
  <2>1. Over(T, T, p, n) /\ Over(T, T, q, n)
    BY Zenon, FieldsOver
  <2> QED BY Zenon, <2>1 DEF Over
<1> HIDE DEF p, q, T, n
<1>4. Spread(p \o q, n) = Spread(p, n) \o Spread(q, n)
  BY <1>2, TextConcat
<1> QED BY Zenon, <1>1, <1>4 DEF Cmds, p, q, n

\* Without a comma there is one field.
LEMMA CmdsOne ==
  ASSUME NEW S, NEW t \in Seq(S \ {","})
  PROVE  Cmds(S, t) = IF TrimSpace(t) = <<>> THEN <<>> ELSE <<TrimSpace(t)>>
<1> DEFINE T == Seq(S)
           n == Named(S)
           U == S \ {","}
<1>1. t \in T
  <2>1. U \subseteq S /\ t \in Seq(U)
    OBVIOUS
  <2> HIDE DEF U
  <2> QED BY Zenon, <2>1, SeqMonotonic
<1>2. Split(t, ",") = <<t>>
  <2>1. "," \notin U /\ t \in Seq(U)
    OBVIOUS
  <2> HIDE DEF U
  <2> QED BY Zenon, <2>1, SplitWhole
<1>3. n[t] = IF TrimSpace(t) = <<>> THEN <<>> ELSE <<TrimSpace(t)>>
  BY Zenon, <1>1 DEF Named
<1>4. n \in [T -> Seq(T)]
  BY Zenon, NamedType
<1> HIDE DEF n, T
<1>5. Spread(<<t>>, n) = n[t]
  BY Zenon, <1>1, <1>4, TextOne
<1>6. Cmds(S, t) = n[t]
  BY Zenon, <1>2, <1>5 DEF Cmds, n
<1> QED BY Zenon, <1>3, <1>6
-----------------------------------------------------------------------------
\* What a character of the tile's text becomes.
Normal(S) == [x \in S |-> IF x = "\n" THEN <<",">> ELSE IF x = "\r" THEN <<>> ELSE <<x>>]

\* It becomes characters.
LEMMA NormalType == ASSUME NEW S, HasComma(S) PROVE Normal(S) \in [S -> Seq(S)]
<1> DEFINE N(x) == IF x = "\n" THEN <<",">> ELSE IF x = "\r" THEN <<>> ELSE <<x>>
<1>1. \A x \in S : <<x>> \in Seq(S) /\ <<>> \in Seq(S)
  OBVIOUS
<1>2. \A x \in S : N(x) \in Seq(S)
  BY Zenon, <1>1 DEF HasComma
<1> QED BY Zenon, <1>2 DEF Normal

\* Characters replaced by a character.
LEMMA ReplaceType ==
  ASSUME NEW S, NEW s \in Seq(S), NEW old, NEW new \in S
  PROVE  ReplaceAll(s, old, new) \in Seq(S)
BY DEF ReplaceAll

\* What a character becomes.
Swap(x, old, new) == IF x = old THEN new ELSE x

\* One more character to be replaced.
LEMMA ReplaceAppend ==
  ASSUME NEW S, NEW s \in Seq(S), NEW x \in S, NEW old, NEW new \in S
  PROVE  ReplaceAll(Append(s, x), old, new)
           = Append(ReplaceAll(s, old, new), Swap(x, old, new))
<1> DEFINE r == ReplaceAll(s, old, new)
           y == IF x = old THEN new ELSE x
           z == ReplaceAll(Append(s, x), old, new)
<1>1. r \in Seq(S) /\ Len(r) = Len(s) /\ \A i \in 1..Len(s) : r[i] = IF s[i] = old THEN new ELSE s[i]
  BY DEF ReplaceAll
<1>2. /\ z \in Seq(S) /\ Len(z) = Len(s) + 1 /\ z[Len(s) + 1] = y
      /\ \A i \in 1..Len(s) : z[i] = IF s[i] = old THEN new ELSE s[i]
  BY DEF ReplaceAll
<1>3. y \in S /\ y = Swap(x, old, new)
  BY DEF Swap
<1> HIDE DEF r, y, z
<1>4. z = Append(r, y)
  BY <1>1, <1>2, <1>3
<1> QED BY Zenon, <1>1, <1>3, <1>4 DEF r, z

\* Normalized, character by character.
LEMMA NormalSpreads ==
  ASSUME NEW S, HasComma(S), NEW s \in Seq(S)
  PROVE  Normalized(s) = Spread(s, Normal(S))
<1> DEFINE N == Normal(S)
           T == {u \in Seq(S) : Normalized(u) = Spread(u, N)}
           r(u) == ReplaceAll(u, "\n", ",")
           f == Step(S, "\r", <<>>)
<1>0. <<>> \in Seq(S)
  OBVIOUS
<1>1. f \in [S -> Seq(S)] /\ N \in [S -> Seq(S)]
  BY Zenon, <1>0, StepType, NormalType
<1>2. ASSUME NEW u \in Seq(S), r(u) \in Seq(S) PROVE Normalized(u) = Spread(r(u), f)
  <2>1. Normalized(u) = Substitute(r(u), "\r", <<>>)
    BY Zenon DEF Normalized
  <2> DEFINE v == r(u)
  <2> HIDE DEF v
  <2>2. v \in Seq(S)
    BY Zenon, <1>2 DEF v
  <2>3. Substitute(v, "\r", <<>>) = Spread(v, f)
    BY Zenon, <1>0, <2>2, SubstituteSpreads
  <2> QED BY Zenon, <2>1, <2>3 DEF v
<1>3. <<>> \in T
  <2>1. r(<<>>) = <<>>
    BY DEF ReplaceAll
  <2>2. Normalized(<<>>) = Spread(<<>>, f)
    <3> HIDE DEF f
    <3> QED BY Zenon, <1>0, <1>2, <2>1
  <2> QED BY Zenon, <1>0, <2>2, SpreadNil
<1>4. ASSUME NEW u \in T, NEW x \in S PROVE Append(u, x) \in T
  <2> DEFINE v == r(u)
             y == IF x = "\n" THEN "," ELSE x
             word == Append(u, x)
  <2>1. u \in Seq(S) /\ Normalized(u) = Spread(u, N)
    OBVIOUS
  <2>2. v \in Seq(S)
    BY Zenon, <2>1, ReplaceType DEF HasComma
  <2>02. r(word) = Append(v, y)
    <3>1. \A c \in S : ReplaceAll(Append(u, x), "\n", c)
                       = Append(ReplaceAll(u, "\n", c), Swap(x, "\n", c))
      <4> TAKE c \in S
      <4> HIDE DEF T
      <4> QED BY <2>1, ReplaceAppend
    <3> QED BY Zenon, <3>1 DEF HasComma, Swap
  <2>3. y \in S /\ word \in Seq(S)
    <3>1. y \in S
      BY Zenon DEF HasComma
    <3>2. Append(u, x) \in Seq(S)
      <4> HIDE DEF T
      <4> QED BY <2>1
    <3> QED BY Zenon, <3>1, <3>2
  <2>4. f[y] = N[x]
    <3>1. f[y] = IF y = "\r" THEN <<>> ELSE <<y>>
      BY Zenon, <2>3 DEF Step
    <3>2. N[x] = IF x = "\n" THEN <<",">> ELSE IF x = "\r" THEN <<>> ELSE <<x>>
      BY Zenon DEF Normal
    <3> HIDE DEF f, N
    <3> QED BY <3>1, <3>2
  <2> HIDE DEF T, N, f, v, y, word
  <2>5. Append(v, y) \in Seq(S)
    BY <2>2, <2>3
  <2>6. Normalized(word) = Spread(Append(v, y), f)
    BY Zenon, <1>2, <2>02, <2>3, <2>5
  <2>7. Spread(Append(v, y), f) = Spread(v, f) \o f[y]
    BY Zenon, <1>1, <2>2, <2>3, TextAppend
  <2>8. Spread(v, f) = Spread(u, N)
    BY Zenon, <1>2, <2>1, <2>2 DEF v
  <2>9. Spread(word, N) = Spread(u, N) \o N[x]
    BY Zenon, <1>1, <2>1, TextAppend DEF word
  <2>10. Normalized(word) = Spread(word, N)
    BY Zenon, <2>4, <2>6, <2>7, <2>8, <2>9
  <2> QED BY Zenon, <2>3, <2>10 DEF T, word
<1> HIDE DEF N, r, f
<1>5. T \subseteq Seq(S)
  BY Zenon
<1> HIDE DEF T
<1>6. s \in T
  BY Zenon, <1>3, <1>4, <1>5, AllSequences
<1> QED BY Zenon, <1>6 DEF T, N

\* The characters include those that separate commands.
HasSeparators(S) == {",", "\n", "\r", " "} \subseteq S

\* One text after another, normalised.
LEMMA NormalConcat ==
  ASSUME NEW S, HasComma(S), NEW s \in Seq(S), NEW t \in Seq(S)
  PROVE  Normalized(s \o t) = Normalized(s) \o Normalized(t)
<1> DEFINE N == Normal(S)
           u == s \o t
<1>1. N \in [S -> Seq(S)]
  BY Zenon, NormalType
<1>2. u \in Seq(S)
  OBVIOUS
<1>3. Normalized(s) = Spread(s, N) /\ Normalized(t) = Spread(t, N)
  BY Zenon, NormalSpreads
<1> HIDE DEF N
<1>4. Spread(s \o t, N) = Spread(s, N) \o Spread(t, N)
  BY <1>1, TextConcat
<1> HIDE DEF u
<1>5. Normalized(u) = Spread(u, N)
  BY Zenon, <1>2, NormalSpreads DEF N
<1> QED BY Zenon, <1>3, <1>4, <1>5 DEF u

\* One character, normalised.
LEMMA NormalOne ==
  ASSUME NEW S, HasComma(S), NEW x \in S
  PROVE  Normalized(<<x>>) = Normal(S)[x]
<1> DEFINE N == Normal(S)
           u == <<x>>
<1>1. N \in [S -> Seq(S)]
  BY Zenon, NormalType
<1>2. u \in Seq(S)
  OBVIOUS
<1> HIDE DEF N
<1>3. Spread(u, N) = N[x]
  BY Zenon, <1>1, TextOne
<1> HIDE DEF u
<1>4. Normalized(u) = Spread(u, N)
  BY Zenon, <1>2, NormalSpreads DEF N
<1> QED BY Zenon, <1>3, <1>4 DEF u, N

\* A command is not changed.
LEMMA NormalStays ==
  ASSUME NEW S, HasComma(S), NEW U, U \subseteq S \ {"\n", "\r"}, NEW c \in Seq(U)
  PROVE  Normalized(c) = c
<1> DEFINE T == {u \in Seq(U) : Normalized(u) = u}
<1>0. U \subseteq S
  BY Zenon
<1>1. ASSUME NEW u \in Seq(U) PROVE u \in Seq(S)
  BY Zenon, <1>0, <1>1, SeqMonotonic
<1>2. <<>> \in T
  <2>1. <<>> \in Seq(U)
    OBVIOUS
  <2>2. Normalized(<<>>) = Spread(<<>>, Normal(S))
    BY Zenon, <1>1, <2>1, NormalSpreads
  <2> QED BY Zenon, <2>1, <2>2, SpreadNil
<1>3. ASSUME NEW u \in T, NEW x \in U PROVE Append(u, x) \in T
  <2>1. u \in Seq(U) /\ Normalized(u) = u
    BY Zenon
  <2>2. x \in S /\ x # "\n" /\ x # "\r"
    BY Zenon
  <2>3. Normal(S)[x] = <<x>>
    BY Zenon, <2>2 DEF Normal
  <2>4. Normalized(<<x>>) = <<x>>
    BY Zenon, <2>2, <2>3, NormalOne
  <2>5. u \in Seq(S)
    BY Zenon, <1>1, <2>1
  <2> HIDE DEF T
  <2>6. <<x>> \in Seq(S) /\ Append(u, x) = u \o <<x>> /\ Append(u, x) \in Seq(U)
    <3>1. <<x>> \in Seq(S)
      BY <2>2
    <3>2. Append(u, x) = u \o <<x>>
      BY <2>5, <2>2
    <3>3. Append(u, x) \in Seq(U)
      BY <2>1
    <3> QED BY Zenon, <3>1, <3>2, <3>3
  <2> DEFINE v == <<x>>
             word == Append(u, x)
  <2>7. v \in Seq(S) /\ word = u \o v /\ word \in Seq(U) /\ Normalized(v) = v
    BY Zenon, <2>4, <2>6
  <2> HIDE DEF v, word
  <2>8. Normalized(u \o v) = Normalized(u) \o Normalized(v)
    BY <2>5, <2>7, NormalConcat
  <2>9. Normalized(word) = word
    BY Zenon, <2>1, <2>7, <2>8
  <2> QED BY Zenon, <2>7, <2>9 DEF T, word
<1>4. T \subseteq Seq(U)
  BY Zenon
<1> HIDE DEF T
<1>5. c \in T
  BY Zenon, <1>2, <1>3, <1>4, AllSequences
<1> QED BY Zenon, <1>5 DEF T

\* Two elements, one after the other.
LEMMA Pair ==
  ASSUME NEW S, NEW x \in S, NEW y \in S
  PROVE  <<x, y>> = <<x>> \o <<y>>
<1> DEFINE v == <<x>>
           word == <<y>>
           q == <<x, y>>
<1>1. /\ v \in Seq(S) /\ Len(v) = 1 /\ v[1] = x /\ word \in Seq(S) /\ Len(word) = 1 /\ word[1] = y
      /\ q \in Seq(S) /\ Len(q) = 2 /\ q[1] = x /\ q[2] = y
  OBVIOUS
<1> HIDE DEF v, word, q
<1>2. q = v \o word
  <2> DEFINE r == v \o word
  <2>1. /\ r \in Seq(S) /\ Len(r) = Len(v) + Len(word)
        /\ \A i \in 1..(Len(v) + Len(word)) : r[i] = IF i <= Len(v) THEN v[i] ELSE word[i - Len(v)]
    BY Zenon, <1>1, ConcatProperties
  <2> HIDE DEF r
  <2>2. Len(r) = 2 /\ r[1] = x /\ r[2] = y
    <3>1. \A i \in 1..2 : r[i] = IF i <= 1 THEN v[i] ELSE word[i - 1]
      BY <1>1, <2>1
    <3>2. r[1] = v[1] /\ r[2] = word[2 - 1]
      BY <3>1
    <3> QED BY <1>1, <2>1, <3>2
  <2>3. \A i \in 1..2 : q[i] = r[i]
    BY <1>1, <2>2
  <2>4. q = r
    BY Zenon, <1>1, <2>1, <2>2, <2>3, SeqEqual
  <2> QED BY <2>4 DEF r
<1> QED BY Zenon, <1>2 DEF v, word, q

\* What may follow the comma of a separator.
Rests == {<<>>, <<" ">>, <<",">>}

\* Every separator has a comma first once it is normalised.
LEMMA SeparatorNormal ==
  ASSUME NEW S, HasSeparators(S), NEW p \in Separators
  PROVE  p \in Seq(S) /\ \E z \in Rests : Normalized(p) = <<",">> \o z
<1>0. "," \in S /\ "\n" \in S /\ "\r" \in S /\ " " \in S
  BY Zenon DEF HasSeparators
<1>1. HasComma(S)
  BY Zenon, <1>0 DEF HasComma
<1>2. /\ Normal(S)[","] = <<",">> /\ Normal(S)["\n"] = <<",">>
      /\ Normal(S)["\r"] = <<>> /\ Normal(S)[" "] = <<" ">>
  BY Zenon, <1>0 DEF Normal
<1>3. /\ Normalized(<<",">>) = <<",">> /\ Normalized(<<"\n">>) = <<",">>
      /\ Normalized(<<"\r">>) = <<>> /\ Normalized(<<" ">>) = <<" ">>
  BY Zenon, <1>0, <1>1, <1>2, NormalOne
<1>4. ASSUME NEW x \in S, NEW y \in S
      PROVE  <<x>> \in Seq(S) /\ <<x, y>> \in Seq(S) /\ <<x, y>> = <<x>> \o <<y>>
  <2>1. <<x>> \in Seq(S)
    OBVIOUS
  <2>2. <<x, y>> \in Seq(S)
    OBVIOUS
  <2>3. <<x, y>> = <<x>> \o <<y>>
    BY Zenon, Pair
  <2> QED BY Zenon, <2>1, <2>2, <2>3
<1>5. ASSUME NEW x \in S, NEW y \in S
      PROVE  Normalized(<<x, y>>) = Normalized(<<x>>) \o Normalized(<<y>>)
  <2> DEFINE v == <<x>>
             word == <<y>>
  <2>1. v \in Seq(S) /\ word \in Seq(S) /\ <<x, y>> = v \o word
    BY Zenon, <1>4
  <2> HIDE DEF v, word
  <2>2. Normalized(v \o word) = Normalized(v) \o Normalized(word)
    BY <1>1, <2>1, NormalConcat
  <2> QED BY Zenon, <2>1, <2>2 DEF v, word
<1>6. p \in Seq(S)
  BY Zenon, <1>0, <1>4 DEF Separators
<1>7. /\ <<",">> = <<",">> \o <<>> /\ <<>> \o <<",">> = <<",">> \o <<>>
  OBVIOUS
<1>07. <<>> \in Rests /\ <<" ">> \in Rests /\ <<",">> \in Rests
  BY Zenon DEF Rests
<1>8. CASE p = <<",">> \/ p = <<"\n">>
  <2>1. Normalized(p) = <<",">> \o <<>>
    BY Zenon, <1>3, <1>7, <1>8
  <2> QED BY Zenon, <2>1, <1>07, <1>6
<1>9. CASE p = <<",", " ">>
  <2>1. Normalized(p) = <<",">> \o <<" ">>
    BY Zenon, <1>0, <1>3, <1>5, <1>9
  <2> QED BY Zenon, <2>1, <1>07, <1>6
<1>10. CASE p = <<"\r", "\n">>
  <2>1. Normalized(p) = <<>> \o <<",">>
    BY Zenon, <1>0, <1>3, <1>5, <1>10
  <2> QED BY Zenon, <2>1, <1>7, <1>07, <1>6
<1>11. CASE p = <<"\n", "\n">>
  <2>1. Normalized(p) = <<",">> \o <<",">>
    BY Zenon, <1>0, <1>3, <1>5, <1>11
  <2> QED BY Zenon, <2>1, <1>07, <1>6
<1> QED BY Zenon, <1>6, <1>8, <1>9, <1>10, <1>11 DEF Separators

\* A command: no separator in it and no blank at its ends.
Command(S, c) ==
  c \in Seq(S \ {",", "\n", "\r"}) /\ c # <<>> /\ c[1] # " " /\ End(c) # " "

\* The commands are texts.
LEMMA CmdsType == ASSUME NEW S, NEW t \in Seq(S) PROVE Cmds(S, t) \in Seq(Seq(S))
<1> DEFINE T == Seq(S)
           p == Split(t, ",")
           n == Named(S)
<1>1. Over(T, T, p, n)
  BY Zenon, FieldsOver
<1> HIDE DEF T, p, n
<1>2. p \in Seq(T) /\ n \in [T -> Seq(T)]
  BY Zenon, <1>1 DEF Over
<1>3. Spread(p, n) \in Seq(T)
  BY Zenon, <1>2, TextType
<1> QED BY Zenon, <1>3 DEF Cmds, T, p, n

\* A text, a comma and another text.
LEMMA Regroup ==
  ASSUME NEW S, NEW word \in Seq(S), NEW c \in S, NEW z \in Seq(S)
  PROVE  word \o (<<c>> \o z) = Append(word, c) \o z
<1> DEFINE v == <<c>>
<1>1. v \in Seq(S) /\ Append(word, c) = word \o v
  OBVIOUS
<1> HIDE DEF v
<1>2. word \o (v \o z) = (word \o v) \o z
  BY <1>1
<1> QED BY Zenon, <1>1, <1>2 DEF v

\* With the comma of a separator.
LEMMA CommaBetween ==
  ASSUME NEW S, HasComma(S), NEW word \in Seq(S), NEW z \in Seq(S)
  PROVE  word \o (<<",">> \o z) = Append(word, ",") \o z /\ Append(word, ",") \in Seq(S)
<1>1. \A c \in S : word \o (<<c>> \o z) = Append(word, c) \o z
  BY Regroup
<1>2. \A c \in S : Append(word, c) \in Seq(S)
  OBVIOUS
<1> QED BY Zenon, <1>1, <1>2 DEF HasComma

\* What follows a separator's comma holds no command.
LEMMA CmdsRest ==
  ASSUME NEW S, HasSeparators(S), NEW z \in Rests
  PROVE  z \in Seq(S) /\ Cmds(S, z) = <<>>
<1>0. "," \in S /\ " " \in S /\ " " \in S \ {","}
  BY Zenon DEF HasSeparators
<1>1. \A x \in S : <<x>> \in Seq(S)
  OBVIOUS
<1>2. \A U : <<>> \in Seq(U) /\ \A x \in U : <<x>> \in Seq(U)
  OBVIOUS
<1>3. <<>> \in Seq(S \ {","}) /\ <<" ">> \in Seq(S \ {","}) /\ <<>> \in Seq(S)
  BY Zenon, <1>0, <1>2
<1>4. TrimSpace(<<>>) = <<>> /\ TrimSpace(<<" ">>) = <<>>
  BY Zenon, TrimNothing DEF TrimSpace
<1>5. Cmds(S, <<>>) = <<>>
  BY Zenon, <1>3, <1>4, CmdsOne
<1>6. Cmds(S, <<" ">>) = <<>>
  BY Zenon, <1>3, <1>4, CmdsOne
<1>7. \A c \in S : Append(<<>>, c) \o <<>> = <<c>>
  OBVIOUS
<1>8. Cmds(S, Append(<<>>, ",") \o <<>>) = Cmds(S, <<>>) \o Cmds(S, <<>>)
  BY Zenon, <1>0, <1>3, CmdsAt DEF HasComma
<1>9. <<>> \o <<>> = <<>>
  OBVIOUS
<1>10. Cmds(S, <<",">>) = <<>>
  BY Zenon, <1>0, <1>5, <1>7, <1>8, <1>9
<1>11. z \in Seq(S)
  BY Zenon, <1>0, <1>1, <1>3 DEF Rests
<1> QED BY Zenon, <1>5, <1>6, <1>10, <1>11 DEF Rests

\* A command is a text without a comma.
LEMMA CommandText ==
  ASSUME NEW S, NEW d, Command(S, d)
  PROVE  d \in Seq(S) /\ d \in Seq(S \ {","})
<1> DEFINE U == S \ {",", "\n", "\r"}
           V == S \ {","}
<1>1. d \in Seq(U) /\ U \subseteq S /\ U \subseteq V
  BY Zenon DEF Command
<1> HIDE DEF U, V
<1>2. d \in Seq(S) /\ d \in Seq(V)
  BY Zenon, <1>1, SeqMonotonic
<1> QED BY Zenon, <1>2 DEF V

\* A command alone, or after a blank or a comma.
LEMMA CmdsStart ==
  ASSUME NEW S, HasSeparators(S), NEW d, Command(S, d), NEW z \in Rests
  PROVE  Cmds(S, z \o d) = <<d>>
<1>0. "," \in S /\ " " \in S /\ " " \in S \ {","}
  BY Zenon DEF HasSeparators
<1>1. d \in Seq(S) /\ d \in Seq(S \ {","})
  BY Zenon, CommandText
<1>2. d # <<>> /\ d[1] # " " /\ End(d) # " "
  BY Zenon DEF Command
<1>3. TrimSpace(d) = d
  BY Zenon, <1>1, <1>2, TrimStays DEF TrimSpace
<1>4. TrimSpace(<<" ">> \o d) = d
  BY Zenon, <1>0, <1>1, <1>2, TrimBefore DEF TrimSpace
<1>5. Cmds(S, d) = <<d>>
  BY Zenon, <1>1, <1>2, <1>3, CmdsOne
<1>6. Cmds(S, <<" ">> \o d) = <<d>>
  <2> DEFINE U == S \ {","}
             b == " "
             t == <<b>> \o d
  <2>1. b \in U /\ d \in Seq(U)
    BY Zenon, <1>0, <1>1
  <2> HIDE DEF U, b
  <2>2. t \in Seq(U)
    BY <2>1
  <2> HIDE DEF t
  <2>3. Cmds(S, t) = IF TrimSpace(t) = <<>> THEN <<>> ELSE <<TrimSpace(t)>>
    BY Zenon, <2>2, CmdsOne DEF U
  <2>4. TrimSpace(t) = d
    BY Zenon, <1>4 DEF t, b
  <2> QED BY Zenon, <2>3, <2>4, <1>2 DEF t, b
<1>7. \A c \in S : Append(<<>>, c) \o d = <<c>> \o d
  OBVIOUS
<1>8. <<>> \in Seq(S) /\ <<>> \o d = d
  <2>1. d \in Seq(S)
    BY <1>1
  <2> QED BY <2>1
<1>9. Cmds(S, Append(<<>>, ",") \o d) = Cmds(S, <<>>) \o Cmds(S, d)
  BY Zenon, <1>0, <1>1, <1>8, CmdsAt DEF HasComma
<1>10. Cmds(S, <<>>) = <<>>
  BY Zenon, CmdsRest DEF Rests
<1>11. <<>> \o <<d>> = <<d>>
  OBVIOUS
<1>12. Cmds(S, <<",">> \o d) = <<d>>
  BY Zenon, <1>0, <1>5, <1>7, <1>9, <1>10, <1>11
<1> QED BY Zenon, <1>5, <1>6, <1>8, <1>12 DEF Rests

\* A separator at the end adds nothing.
LEMMA CmdsEnd ==
  ASSUME NEW S, HasSeparators(S), NEW word \in Seq(S), NEW z \in Rests
  PROVE  Cmds(S, word \o (<<",">> \o z)) = Cmds(S, word)
<1>0. "," \in S
  BY Zenon DEF HasSeparators
<1>1. z \in Seq(S) /\ Cmds(S, z) = <<>>
  BY Zenon, CmdsRest
<1>2. word \o (<<",">> \o z) = Append(word, ",") \o z
  BY Zenon, <1>0, <1>1, CommaBetween DEF HasComma
<1>3. Cmds(S, Append(word, ",") \o z) = Cmds(S, word) \o Cmds(S, z)
  BY Zenon, <1>0, <1>1, CmdsAt DEF HasComma
<1>4. Cmds(S, word) \o <<>> = Cmds(S, word)
  <2> DEFINE x == Cmds(S, word)
             T == Seq(S)
  <2>1. x \in Seq(T)
    BY Zenon, CmdsType
  <2> HIDE DEF x, T
  <2>2. x \o <<>> = x
    BY <2>1
  <2> QED BY Zenon, <2>2 DEF x
<1> QED BY Zenon, <1>1, <1>2, <1>3, <1>4

\* Two commands, what separates them and what ends the list.
Listed(S, a, p, d, e) ==
  /\ HasSeparators(S) /\ Command(S, a) /\ Command(S, d)
  /\ p \in Separators /\ e \in Separators \cup {<<>>}

\* The agent gets the two commands.
LEMMA TwoCommands ==
  ASSUME NEW S, NEW a, NEW p, NEW d, NEW e, Listed(S, a, p, d, e)
  PROVE  blockedCmds(a \o p \o d \o e) = <<a, d>>
<1> /\ HasSeparators(S) /\ Command(S, a) /\ Command(S, d)
    /\ p \in Separators /\ e \in Separators \cup {<<>>}
  BY Zenon DEF Listed
<1> DEFINE t == ((a \o p) \o d) \o e
           np == Normalized(p)
           ne == Normalized(e)
<1>0. HasComma(S)
  BY Zenon DEF HasSeparators, HasComma
<1>1. a \in Seq(S) /\ d \in Seq(S)
  BY Zenon, CommandText
<1>2. Normalized(a) = a /\ Normalized(d) = d
  <2> DEFINE U == S \ {",", "\n", "\r"}
  <2>1. a \in Seq(U) /\ d \in Seq(U) /\ U \subseteq S \ {"\n", "\r"}
    BY Zenon DEF Command
  <2> HIDE DEF U
  <2> QED BY Zenon, <1>0, <2>1, NormalStays
<1>3. p \in Seq(S)
  BY Zenon, SeparatorNormal
<1>4. PICK z \in Rests : np = <<",">> \o z
  BY Zenon, SeparatorNormal
<1>5. z \in Seq(S)
  BY Zenon, CmdsRest
<1>6. e \in Seq(S) /\ (ne = <<>> \/ \E y \in Rests : ne = <<",">> \o y)
  <2>1. CASE e \in Separators
    BY Zenon, <2>1, SeparatorNormal
  <2>2. CASE e = <<>>
    <3>1. <<>> \in Seq(S)
      OBVIOUS
    <3>2. Normalized(<<>>) = <<>>
      BY Zenon, <1>0, <3>1, NormalSpreads, SpreadNil
    <3> QED BY Zenon, <2>2, <3>1, <3>2
  <2> QED BY Zenon, <2>1, <2>2
<1>06. e \in Seq(S)
  BY Zenon, <1>6
<1> HIDE DEF np, ne
<1>7. a \o p \in Seq(S) /\ (a \o p) \o d \in Seq(S) /\ t \in Seq(S)
  <2>1. a \o p \in Seq(S)
    BY <1>1, <1>3
  <2> DEFINE u == a \o p
  <2> HIDE DEF u
  <2>2. u \o d \in Seq(S)
    BY <1>1, <2>1 DEF u
  <2> DEFINE v == u \o d
  <2> HIDE DEF v
  <2>3. v \o e \in Seq(S)
    BY <1>06, <2>2 DEF v
  <2> QED BY Zenon, <2>1, <2>2, <2>3 DEF u, v
<1>8. Normalized(t) = ((a \o np) \o d) \o ne
  <2> DEFINE u == a \o p
             v == u \o d
  <2>1. Normalized(u) = a \o np
    BY <1>0, <1>1, <1>2, <1>3, NormalConcat DEF np
  <2>2. u \in Seq(S) /\ v \in Seq(S)
    BY Zenon, <1>7
  <2> HIDE DEF u
  <2>3. Normalized(v) = Normalized(u) \o d
    BY <1>0, <1>1, <1>2, <2>2, NormalConcat
  <2> HIDE DEF v
  <2>4. Normalized(v \o e) = Normalized(v) \o ne
    BY <1>0, <1>06, <2>2, NormalConcat DEF ne
  <2> QED BY Zenon, <2>1, <2>3, <2>4 DEF u, v
<1> DEFINE word == Append(a, ",") \o (z \o d)
<1>9. (a \o np) \o d = word /\ word \in Seq(S) /\ z \o d \in Seq(S)
  <2> DEFINE b == Append(a, ",")
  <2>1. a \o (<<",">> \o z) = b \o z /\ b \in Seq(S)
    BY Zenon, <1>0, <1>1, <1>5, CommaBetween
  <2>2. a \o np = b \o z /\ b \in Seq(S)
    BY Zenon, <1>4, <2>1
  <2> HIDE DEF b
  <2>3. (b \o z) \o d = b \o (z \o d) /\ z \o d \in Seq(S) /\ b \o (z \o d) \in Seq(S)
    <3>1. z \o d \in Seq(S)
      BY <1>1, <1>5
    <3>2. (b \o z) \o d = b \o (z \o d)
      BY <1>1, <1>5, <2>2
    <3> DEFINE x == z \o d
    <3> HIDE DEF x
    <3>3. b \o x \in Seq(S)
      BY <2>2, <3>1 DEF x
    <3> QED BY Zenon, <3>1, <3>2, <3>3 DEF x
  <2> QED BY Zenon, <2>2, <2>3 DEF b
<1>10. Cmds(S, word) = <<a, d>>
  <2>1. Cmds(S, word) = Cmds(S, a) \o Cmds(S, z \o d)
    <3> DEFINE x == z \o d
    <3>1. x \in Seq(S)
      BY Zenon, <1>9
    <3> HIDE DEF x
    <3>2. Cmds(S, Append(a, ",") \o x) = Cmds(S, a) \o Cmds(S, x)
      BY Zenon, <1>0, <1>1, <3>1, CmdsAt
    <3> QED BY Zenon, <3>2 DEF x
  <2>2. Cmds(S, z \o d) = <<d>>
    BY Zenon, CmdsStart
  <2>3. Cmds(S, <<>> \o a) = <<a>>
    BY Zenon, CmdsStart DEF Rests
  <2>4. <<>> \o a = a
    BY <1>1
  <2>5. <<a, d>> = <<a>> \o <<d>>
    <3> DEFINE T == Seq(S)
    <3>1. a \in T /\ d \in T
      BY <1>1
    <3> HIDE DEF T
    <3> QED BY Zenon, <3>1, Pair
  <2> QED BY Zenon, <2>1, <2>2, <2>3, <2>4, <2>5
<1> HIDE DEF word
<1>11. Cmds(S, word \o ne) = Cmds(S, word) /\ word \o ne \in Seq(S)
  <2>1. CASE ne = <<>>
    <3>1. word \o <<>> = word
      BY <1>9
    <3> QED BY Zenon, <2>1, <3>1, <1>9
  <2>2. ASSUME NEW y \in Rests, ne = <<",">> \o y
        PROVE  Cmds(S, word \o ne) = Cmds(S, word) /\ word \o ne \in Seq(S)
    <3>1. Cmds(S, word \o (<<",">> \o y)) = Cmds(S, word)
      BY Zenon, <1>9, CmdsEnd
    <3>2. y \in Seq(S)
      BY Zenon, CmdsRest
    <3>3. \A c \in S : <<c>> \o y \in Seq(S)
      BY <3>2
    <3>4. ne \in Seq(S)
      BY Zenon, <1>0, <2>2, <3>3 DEF HasComma
    <3>5. word \o ne \in Seq(S)
      BY <1>9, <3>4
    <3> QED BY Zenon, <2>2, <3>1, <3>5
  <2> QED BY Zenon, <1>6, <2>1, <2>2
<1>12. Normalized(t) = word \o ne
  BY Zenon, <1>8, <1>9
<1> HIDE DEF t
<1>13. blockedCmds(t) = Cmds(S, Normalized(t))
  BY Zenon, <1>11, <1>12, CmdsAre
<1> QED BY Zenon, <1>10, <1>11, <1>12, <1>13 DEF t

\* The blocked commands of a manifest.
LEMMA AgentBlocked ==
  ASSUME NEW g \in Agents, g.blocked # <<>>
  PROVE  g.blocked \in Commands \X Separators \X Commands \X (Separators \cup {<<>>})
<1> DEFINE ByID == {[Plain EXCEPT !.id = id] : id \in IDs}
           ByValue == {[Plain EXCEPT !.value = s] : s \in Texts}
           ByBlocked == {[Plain EXCEPT !.blocked = b] :
                           b \in Commands \X Separators \X Commands \X (Separators \cup {<<>>})}
           BySSO == {[Plain EXCEPT !.sso = p[1], !.client = p[2]] : p \in BOOLEAN \X {"", "id"}}
<1>1. g \in ByID \cup ByValue \cup ByBlocked \cup BySSO
  BY Zenon DEF Agents
<1>2. g \in ByID \/ g \in ByValue \/ g \in BySSO => g.blocked = <<>>
  BY Zenon DEF Plain
<1>3. CASE g \in ByBlocked
  BY Zenon, <1>3 DEF Plain
<1> HIDE DEF ByID, ByValue, ByBlocked, BySSO
<1> QED BY Zenon, <1>1, <1>2, <1>3

\* The agent gets exactly the commands that the operator listed, in order:
\* whatever the two commands are, however they are separated (commas, line ends
\* of either kind, empty lines, blanks) and however the list ends.
THEOREM BlockedAlwaysAsListed == building \subseteq Agents => BlockedAsListed
<1> SUFFICES ASSUME NEW g \in Agents, g.blocked # <<>>
             PROVE  LET b == g.blocked IN blockedCmds(b[1] \o b[2] \o b[3] \o b[4]) = <<b[1], b[3]>>
  BY Zenon DEF BlockedAsListed
<1> DEFINE b == g.blocked
           S == Range(b[1]) \cup Range(b[3]) \cup {",", "\n", "\r", " "}
<1>1. b[1] \in Commands /\ b[2] \in Separators /\ b[3] \in Commands /\ b[4] \in Separators \cup {<<>>}
  BY AgentBlocked
<1>2. HasSeparators(S)
  BY Zenon DEF HasSeparators
<1>3. ASSUME NEW c \in Commands, Range(c) \subseteq S PROVE Command(S, c)
  <2> DEFINE X == {",", "\n", "\r"}
             U == Range(c) \ X
             V == S \ X
  <2>1. c \in Seq(U) /\ c # <<>> /\ c[1] # " " /\ End(c) # " "
    BY Zenon, CommandAssumption DEF End
  <2>2. U \subseteq V
    BY Zenon, <1>3
  <2> HIDE DEF U, V
  <2>3. c \in Seq(V)
    BY Zenon, <2>1, <2>2, SeqMonotonic
  <2> QED BY Zenon, <2>1, <2>3 DEF Command, V
<1>4. Range(b[1]) \subseteq S /\ Range(b[3]) \subseteq S
  BY Zenon
<1> HIDE DEF S, b
<1>5. Command(S, b[1]) /\ Command(S, b[3])
  BY Zenon, <1>1, <1>3, <1>4
<1>6. blockedCmds(b[1] \o b[2] \o b[3] \o b[4]) = <<b[1], b[3]>>
  <2>1. Listed(S, b[1], b[2], b[3], b[4])
    BY Zenon, <1>1, <1>2, <1>5 DEF Listed
  <2> DEFINE a == b[1]
             p == b[2]
             d == b[3]
             e == b[4]
  <2> HIDE DEF a, p, d, e
  <2>2. Listed(S, a, p, d, e)
    BY Zenon, <2>1 DEF a, p, d, e
  <2>3. blockedCmds(a \o p \o d \o e) = <<a, d>>
    BY <2>2, TwoCommands
  <2> QED BY Zenon, <2>3 DEF a, p, d, e
<1> QED BY Zenon, <1>6 DEF b
=============================================================================
