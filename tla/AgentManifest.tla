--------------------------- MODULE AgentManifest ---------------------------
(***************************************************************************)
(* What the broker puts into the manifest it sends to the Director: the    *)
(* route's hostname, quoted values, the list of blocked commands and the   *)
(* jobs with their ports.  Pure functions of the manifest's parameters; a  *)
(* string is a sequence of the characters the code tells apart.            *)
(***************************************************************************)
EXTENDS Sieve

CONSTANTS
  LabelMax, \* the longest DNS label, 63
  Owners,   \* owner parameters
  IDs,      \* instance IDs
  Texts,    \* values put between double quotes
  Commands  \* commands to be blocked

ASSUME LabelAssumption == LabelMax \in Nat /\ LabelMax > 5

\* Strings of any characters; validInstanceID asks for a letter or a digit first.
ASSUME StringAssumption ==
  /\ \A s \in Owners \cup IDs \cup Texts : s \in Seq(Range(s))
  /\ \A id \in IDs : id # <<>> /\ id[1] \in {"a", "b", "A", "B"}

\* A command has no separator in it, and no blank at its ends.
ASSUME CommandAssumption ==
  \A s \in Commands : /\ s \in Seq(Range(s) \ {",", "\n", "\r"}) /\ s # <<>>
                      /\ s[1] # " " /\ s[Len(s)] # " "

VARIABLE building \* the parameters of the manifest that is being built, if any
-----------------------------------------------------------------------------
(* Hostnames.  Characters: letters of either case, "-", "@", "." for the   *)
(* two that an owner's hyphens replace, and any that is not valid in a DNS *)
(* label ("_" in an ID, "!" in an owner).                                  *)

ReplaceAll(s, old, new) == [i \in DOMAIN s |-> IF s[i] = old THEN new ELSE s[i]]
ToLower(s) == ReplaceAll(ReplaceAll(s, "A", "a"), "B", "b")
Valid(s) == Sift(s, {"a", "b", "-"})
Cut(s, n) == SubSeq(s, 1, n)

TrimRight(s) == LET keep == {i \in DOMAIN s : s[i] # "-"}
                IN IF keep = {} THEN <<>> ELSE Cut(s, Max(keep))
\* Without the c's at both ends.
Trim(s, c) == LET keep == {i \in DOMAIN s : s[i] # c}
              IN IF keep = {} THEN <<>> ELSE SubSeq(s, Min(keep), Max(keep))
BeforeAt(s) == LET at == {i \in DOMAIN s : s[i] = "@"}
               IN IF at = {} THEN s ELSE Cut(s, Min(at) - 1)

sanitizeHostname(s) == Trim(Valid(ReplaceAll(BeforeAt(ToLower(s)), ".", "-")), "-")

\* Mutant: the separator is forgotten.
OwnerRoomWide(n) == Max({1, LabelMax - 3 - n})
\* maxOwnerLen for an ID of n characters: "oc-" and a separator take four.
OwnerRoom(n) == Max({1, LabelMax - 4 - n})

\* Mutant: the hyphens a cut leaves at the end stay.
CutOnly(s, n) == IF Len(s) > n THEN Cut(s, n) ELSE s
CutLabel(s, n) == IF Len(s) > n THEN TrimRight(Cut(s, n)) ELSE s

Prefix == <<"o", "c", "-">>
sanitizedID(id) == Trim(Valid(ToLower(id)), "-")
uniqueRouteHostname(owner, id) ==
  LET sid == sanitizedID(id)
  IN CutLabel(Prefix \o CutLabel(owner, OwnerRoom(Len(sid))) \o <<"-">> \o sid,
              LabelMax)

\* Provision's hostname, with "agent" for an owner nothing is left of.
routeHostname(owner, id) ==
  LET s == sanitizeHostname(owner)
  IN uniqueRouteHostname(IF s = <<>> THEN <<"a", "g", "e", "n", "t">> ELSE s, id)

LabelChars == {"a", "b", "c", "e", "g", "n", "o", "t", "-"}
\* A route's hostname is a DNS label whatever the owner and the instance ID:
\* not too long, of valid characters, and no hyphen at its end where it was cut.
HostnameIsLabel ==
  \A g \in building, owner \in Owners :
    LET h == routeHostname(owner, g.id)
    IN Len(h) <= LabelMax /\ h[Len(h)] # "-" /\ Range(h) \subseteq LabelChars

\* Two instances never share a hostname, whoever owns them, as long as their
\* IDs are lower-case labels of one length with five characters to spare (CF's
\* GUIDs): it is the owner that is cut, never the ID.
Fits(id) == sanitizedID(id) = id /\ Len(id) <= LabelMax - 5
HostnamesDiffer ==
  \A g \in {g \in building : Fits(g.id)} :
    LET hosts == {routeHostname(o, g.id) : o \in Owners}
        others == {id \in IDs \ {g.id} : Fits(id) /\ Len(id) = Len(g.id)}
    IN \A id \in others, o \in Owners : routeHostname(o, id) \notin hosts
-----------------------------------------------------------------------------
(* Quoted values.  Characters: the quote "q", the backslash "\\", one that *)
(* is not printable ("~") and any other ("x").                             *)

Escape(s, c) == Substitute(s, c, <<"\\", c>>)
Printable(s) == Substitute(s, "~", <<>>)

\* Mutant: the quotes are escaped first.
QuotesFirst(s) == Printable(Escape(Escape(s, "q"), "\\"))
sanitizeForYAML(s) == Printable(Escape(Escape(s, "\\"), "q"))

\* What YAML reads between double quotes, character by character: up to the
\* first quote that no backslash escapes. The state is whether that has come,
\* whether the last character was a backslash that escapes, and what is read.
ReadChar(state, c) ==
  IF state[1] THEN state
  ELSE IF state[2] THEN <<FALSE, FALSE, Append(state[3], c)>>
  ELSE IF c = "\\" THEN <<FALSE, TRUE, state[3]>>
  ELSE IF c = "q" THEN <<TRUE, FALSE, state[3]>>
  ELSE <<FALSE, FALSE, Append(state[3], c)>>
Unquote(s) ==
  LET run[i \in 0..Len(s)] == IF i = 0 THEN <<FALSE, FALSE, <<>> >>
                              ELSE ReadChar(run[i - 1], s[i])
  IN run[Len(s)][3]

\* A quoted value reads back as what was put in, without what is not printable.
QuotedReadsBack ==
  \A g \in building : Unquote(sanitizeForYAML(g.value)) = Printable(g.value)
-----------------------------------------------------------------------------
(* Blocked commands.  Characters: "\n", "\r", ",", " " and others.         *)

\* One more character: it ends the last field or belongs to it.
Take(fields, x, c) == IF x = c THEN Append(fields, <<>>)
                      ELSE [fields EXCEPT ![Len(fields)] = Append(@, x)]
Split(s, c) ==
  LET fields[k \in 0..Len(s)] == IF k = 0 THEN <<<<>>>> ELSE Take(fields[k - 1], s[k], c)
  IN fields[Len(s)]
TrimSpace(s) == Trim(s, " ")

\* Mutant: carriage returns stay.
NormalizedLF(s) == ReplaceAll(s, "\n", ",")
Normalized(s) == Substitute(ReplaceAll(s, "\n", ","), "\r", <<>>)

blockedCmds(s) ==
  LET fields == Split(Normalized(s), ",")
  IN Spread(fields, [f \in Range(fields) |-> IF TrimSpace(f) = <<>> THEN <<>>
                                             ELSE <<TrimSpace(f)>>])

\* However the tile separates the commands ("tile may send newline-separated or
\* comma-separated"), with blanks and empty lines or not, the agent gets exactly
\* the commands, in order.
BlockedAsListed ==
  \A g \in building :
    LET b == g.blocked
    IN b # <<>> => blockedCmds(b[1] \o b[2] \o b[3] \o b[4]) = <<b[1], b[3]>>
-----------------------------------------------------------------------------
(* The jobs of the manifest with the ports they listen on, and the port    *)
(* the route leads to.                                                     *)

\* openclaw.json.erb's listen_port.
AgentPort(sso) == IF sso THEN 8081 ELSE 8080

\* buildManifestParams asks for SSO only with a client.
SSOEnabled(p) == p.sso /\ p.client # ""

\* Mutant: the agent is not told of the proxy.
ManifestUntold(p) ==
  [agentSso |-> FALSE, proxy |-> SSOEnabled(p),
   listen |-> 8080, upstream |-> 8081, route |-> 8080]
\* The proxy job and the agent's sso.enabled come together.
RenderJobs(p) ==
  [agentSso |-> SSOEnabled(p), proxy |-> SSOEnabled(p),
   listen |-> 8080, upstream |-> 8081, route |-> 8080]

\* The routed port is served by exactly one job, and the proxy, if there is
\* one, forwards to the port the agent listens on ("SSO uses oauth2-proxy on
\* 8080 -> OpenClaw on 8081"): three files agree on it.
PortsServed ==
  \A g \in building :
    LET m == RenderJobs(g)
        agent == AgentPort(m.agentSso)
    IN /\ (agent = m.route) # (m.proxy /\ m.listen = m.route)
       /\ m.proxy => m.upstream = agent
-----------------------------------------------------------------------------
(* The parameters checked.  No property reads two groups of them, so one   *)
(* group varies at a time.  Two commands, what separates them and what     *)
(* ends the list make the blocked commands.                                *)

Separators == {<<",">>, <<",", " ">>, <<"\n">>, <<"\r", "\n">>, <<"\n", "\n">>}
Plain == [id |-> <<"a">>, value |-> <<>>, blocked |-> <<>>, sso |-> FALSE, client |-> ""]
Agents ==
  {[Plain EXCEPT !.id = id] : id \in IDs} \cup {[Plain EXCEPT !.value = s] : s \in Texts}
  \cup {[Plain EXCEPT !.blocked = b] :
          b \in Commands \X Separators \X Commands \X (Separators \cup {<<>>})}
  \cup {[Plain EXCEPT !.sso = p[1], !.client = p[2]] : p \in BOOLEAN \X {"", "id"}}
=============================================================================
