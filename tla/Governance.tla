---------------------------- MODULE Governance ----------------------------
(* Who may see what: the consumer registry with its short-lived cache, the *)
(* resolution of a call to a consumer profile on stdio and over HTTP, and  *)
(* the projection of canonical data through the contract of that consumer. *)
(* The registry source is edited while calls are in flight.                *)
EXTENDS Naturals, FiniteSets, TLC

CONSTANTS
  Setups,      \* deployments: transport, env, allowAnon, governed, default token,
               \* inline registry, whether a file takes precedence, extra write scopes
  Versions,    \* what operators may put in the registry file
  Requests,    \* what a tool call carries
  Leaves,      \* the leaves of a canonical answer: class, gates above it, text or not
  Families,    \* names of one capability: its id, its WHMCS action, its aliases
  Ttl,         \* REGISTRY_CACHE_TTL_MS
  MaxMoment,   \* bound on the clock
  MaxEdits     \* bound on the edits of the registry file

ASSUME GovernanceTimes == {Ttl, MaxMoment, MaxEdits} \subseteq Nat

(* The fields of an entry; a digest stands in it, never an absent token. *)
HasSchema(e) ==
  /\ e = [id |-> e.id, token |-> e.token, defaultContract |-> e.defaultContract,
          allowedContracts |-> e.allowedContracts, allowedActions |-> e.allowedActions,
          envRestrictions |-> e.envRestrictions, writeCapability |-> e.writeCapability,
          scopes |-> e.scopes, anonymous |-> e.anonymous]
  /\ e.token # "none" /\ e.anonymous \in BOOLEAN

(* Every other source is refused before its entries are looked at. *)
ASSUME EntriesHaveSchema ==
  \A version \in Versions \cup {deployment.inline : deployment \in Setups} :
    \A e \in version.entries : HasSchema(e)

VARIABLES
  setup,       \* the deployment this process runs in
  source,      \* the registry source as it stands
  loaded,      \* cachedRegistry of governance/pipeline.ts
  loadedAt,    \* cachedAt; Never while nothing was loaded
  moment,      \* Date.now
  call,        \* the tool call being served, or the last one
  past,        \* for each moment, what the source held then
  edits        \* edits of the source so far

governance == <<setup, source, loaded, loadedAt, moment, call, past, edits>>

Never == MaxMoment + 1

----------------------------------------------------------------------------
(* Contracts and projection                                                *)

Personal == {"pii.name", "pii.email", "pii.phone", "pii.address", "pii.tax", "pii.custom_field"}

FieldClasses == Personal \cup
  {"business.identifier", "financial.amount", "financial.reference", "secret.credential",
   "untrusted.free_text", "internal.private_note", "system.audit", "public.safe",
   "business.label", "system.status", "system.diagnostic"}

Treats(classes, how) == [class \in classes |-> how]

AllowsAll == Treats(FieldClasses, "allow")

KeepsSecrets == Treats({"secret.credential"}, "drop") @@ AllowsAll

Automation == Treats({"system.diagnostic"}, "summarize")
              @@ Treats({"internal.private_note"}, "drop") @@ KeepsSecrets

Cautious == Treats({"internal.private_note", "system.audit", "system.diagnostic"}, "drop")
            @@ KeepsSecrets

(* The policy of every contract, class by class. *)
Policy ==
  [none_local_only |-> AllowsAll,
   debug_local |-> Treats({"secret.credential"}, "mask") @@ AllowsAll,
   admin_full_trusted |-> KeepsSecrets,
   ops_operator |-> Treats({"untrusted.free_text"}, "wrap_untrusted") @@ KeepsSecrets,
   support_triage |-> Treats({"system.diagnostic"}, "summarize") @@ KeepsSecrets,
   client_portal_self |-> Cautious,
   billing_reconciliation |->
     Treats({"pii.phone", "pii.address", "pii.tax"}, "mask")
     @@ Treats({"pii.custom_field", "untrusted.free_text"}, "drop") @@ Automation,
   renewal_automation |->
     Treats(Personal \ {"pii.email"}, "mask")
     @@ Treats({"untrusted.free_text"}, "drop") @@ Automation,
   llm_safe_summary |->
     Treats(Personal, "mask") @@ Treats({"untrusted.free_text"}, "summarize") @@ Cautious,
   grok_channel_safe |->
     Treats({"pii.name", "pii.email"}, "mask")
     @@ Treats(Personal \ {"pii.name", "pii.email"}, "drop")
     @@ Treats({"untrusted.free_text"}, "summarize") @@ Cautious]

EnvAllowed(contract) ==
  contract \in {"debug_local", "none_local_only"} => setup.env = "local"

(* maskValue: a class with a mask of its own, of a string; a secret whatever it is. *)
Maskable(leaf) ==
  leaf.class = "secret.credential" \/ (leaf.class \in Personal /\ leaf.text)

(* projectNode: a classed container on the way must be allowed, an unmapped leaf is
   dropped, and what cannot be masked or summarized is dropped. *)
Survives(leaf, contract) ==
  /\ leaf.class \in FieldClasses
  /\ \A gate \in leaf.gates : Policy[contract][gate] = "allow"
  /\ LET action == Policy[contract][leaf.class]
     IN /\ action # "drop"
        /\ action = "mask" => Maskable(leaf)
        /\ action = "summarize" => leaf.text

View(contract) ==
  {[class |-> leaf.class, form |-> Policy[contract][leaf.class]]
     : leaf \in {l \in Leaves : Survives(l, contract)}}

(* The payload of a tool without governance, as it is. *)
RawView == {[class |-> leaf.class, form |-> "allow"] : leaf \in Leaves}

----------------------------------------------------------------------------
(* The registry                                                            *)

Unambiguous(entries) ==
  /\ \A e, f \in entries : e.id = f.id \/ e.token = f.token => e = f
  /\ Cardinality({e \in entries : e.anonymous}) <= 1

ValidEntry(e) ==
  /\ e.defaultContract \in e.allowedContracts
  /\ e.anonymous => e.allowedContracts = {"llm_safe_summary"}

(* A source that is unreadable, open to others, empty or malformed fails, and so
   does one the schema refuses. *)
Loads(version) ==
  /\ version.readable
  /\ \A e \in version.entries : ValidEntry(e)
  /\ Unambiguous(version.entries)

(* toProfile and applyExtraWriteScopes. *)
Profiles(version) ==
  {IF e.anonymous THEN e ELSE [e EXCEPT !.scopes = @ \cup setup.extraScopes]
     : e \in version.entries}

Stale == loadedAt = Never \/ moment - loadedAt > Ttl

(* getConsumerRegistry, when it does not throw. *)
ConsultSliding ==
  /\ Stale => Loads(source)
  /\ loaded' = (IF Stale THEN Profiles(source) ELSE loaded)
  /\ loadedAt' = moment

Consult ==
  \/ ~Stale /\ UNCHANGED <<loaded, loadedAt>>
  \/ /\ Stale
     /\ Loads(source)
     /\ loaded' = Profiles(source)
     /\ loadedAt' = moment

----------------------------------------------------------------------------
(* From a call to a profile                                                *)

EnvAllows(e) == e.envRestrictions = {} \/ setup.env \in e.envRestrictions

WithToken(registry, token) == {e \in registry : token # "none" /\ e.token = token}

(* effectiveAuthToken: the default token stands in on stdio only. *)
EffectiveToken(request) ==
  IF request.token = "none" /\ setup.transport = "stdio"
    THEN setup.defaultToken ELSE request.token

(* The deliberate anonymous fallback, never in production. *)
Fallback(registry, allowAnon) ==
  {e \in registry : e.anonymous /\ allowAnon /\ setup.env # "production"}

(* resolveConsumer: no profile when the call is denied. *)
Resolve(registry, token, allowAnon) ==
  LET match == WithToken(registry, token)
  IN IF match # {} THEN {e \in match : EnvAllows(e)} ELSE Fallback(registry, allowAnon)

(* Over HTTP the marker of the bound identity is looked up by id. *)
Resolved(registry, request, identity, allowAnon) ==
  IF setup.transport = "http"
    THEN {e \in registry : e.id = identity /\ EnvAllows(e)}
    ELSE Resolve(registry, EffectiveToken(request), allowAnon)

(* expand of allowedActions.ts. *)
Expand(name) == {name} \cup UNION {family \in Families : name \in family}

ActionAllowed(e, action) ==
  e.allowedActions = {} \/ \E granted \in e.allowedActions : Expand(granted) \cap Expand(action) # {}

PickContract(e, requested) ==
  IF requested \in e.allowedContracts THEN requested ELSE e.defaultContract

(* assertWriteScopeAllowed. *)
WriteScopeAllowed(e, scope) ==
  e.writeCapability \notin {"false", "disabled"} /\ scope \in e.scopes

----------------------------------------------------------------------------
(* Serving a call                                                          *)

NoView == {}

Idle == [phase |-> "idle", request |-> "none", identity |-> "none", view |-> NoView, at |-> 0]

Reply(phase, view) ==
  call' = [call EXCEPT !.phase = phase, !.view = view, !.at = moment]

(* A request arrives. Over HTTP its bearer token is resolved against the registry
   that was loaded at start-up; the id it resolves to is bound to the tool call. *)
Arrive ==
  /\ call.phase # "reading"
  /\ \E request \in Requests :
       LET authenticated == Resolve(Profiles(setup.inline), request.token, FALSE)
       IN IF setup.transport = "http"
            THEN \/ /\ authenticated = {}
                    /\ call' = [Idle EXCEPT !.phase = "refused", !.request = request]
                 \/ \E e \in authenticated :
                      call' = [Idle EXCEPT !.phase = "reading", !.request = request, !.identity = e.id]
            ELSE call' = [Idle EXCEPT !.phase = "reading", !.request = request]
  /\ UNCHANGED <<setup, source, loaded, loadedAt, moment, past, edits>>

(* getConsumerRegistry throws: the call fails and the cache is left alone. *)
RegistryFails ==
  /\ call.phase = "reading"
  /\ setup.governed \/ call.request.kind = "draft"
  /\ Stale /\ ~Loads(source)
  /\ Reply("refused", NoView)
  /\ UNCHANGED <<setup, source, loaded, loadedAt, moment, past, edits>>

(* applyGovernanceOrLegacy with governance off. *)
AnswerLegacy ==
  /\ call.phase = "reading" /\ call.request.kind = "read" /\ ~setup.governed
  /\ Reply("answered", RawView)
  /\ UNCHANGED <<setup, source, loaded, loadedAt, moment, past, edits>>

(* governedToolResult, governedListResult. *)
AnswerGoverned ==
  /\ call.phase = "reading" /\ call.request.kind = "read" /\ setup.governed
  /\ Consult
  /\ LET profiles == Resolved(loaded', call.request, call.identity, setup.allowAnon)
         permitted == {e \in profiles : ActionAllowed(e, call.request.action)}
         contracts == {PickContract(e, call.request.contract) : e \in permitted}
     IN \/ /\ \A contract \in contracts : ~EnvAllowed(contract)
           /\ Reply("refused", NoView)
        \/ \E contract \in contracts :
             EnvAllowed(contract) /\ Reply("answered", View(contract))
  /\ UNCHANGED <<setup, source, moment, past, edits>>

(* resolveWriteConsumer and the write-scope gate of a draft. *)
AnswerDraft ==
  /\ call.phase = "reading" /\ call.request.kind = "draft"
  /\ Consult
  /\ LET profiles == Resolved(loaded', call.request, call.identity, FALSE)
     IN IF \E e \in profiles : WriteScopeAllowed(e, call.request.scope)
          THEN Reply("answered", NoView) ELSE Reply("refused", NoView)
  /\ UNCHANGED <<setup, source, moment, past, edits>>

(* An operator rotates, revokes or breaks the registry file. *)
EditRegistry ==
  /\ setup.registryFile /\ edits < MaxEdits
  /\ \E version \in Versions \ {source} :
       /\ source' = version
       /\ past' = [past EXCEPT ![moment] = @ \cup {version}]
  /\ edits' = edits + 1
  /\ UNCHANGED <<setup, loaded, loadedAt, moment, call>>

MomentPasses ==
  /\ moment < MaxMoment
  /\ moment' = moment + 1
  /\ past' = [past EXCEPT ![moment'] = {source}]
  /\ UNCHANGED <<setup, source, loaded, loadedAt, call, edits>>

GovernanceInit ==
  /\ setup \in Setups
  /\ source \in (IF setup.registryFile THEN Versions ELSE {setup.inline})
  /\ loaded = {} /\ loadedAt = Never /\ moment = 0 /\ edits = 0
  /\ call = Idle
  /\ past = [t \in 0..MaxMoment |-> IF t = 0 THEN {source} ELSE {}]

GovernanceNext ==
  \/ Arrive \/ RegistryFails \/ AnswerLegacy \/ AnswerGoverned \/ AnswerDraft
  \/ EditRegistry \/ MomentPasses

GovernanceSpec == GovernanceInit /\ [][GovernanceNext]_governance

----------------------------------------------------------------------------
(* The token of an HTTP call is borne, in the registry that was inline at start-up,
   by the entry of this id: the file is never consulted about who a token is. *)
KnownAtStart(id, token) ==
  \E f \in setup.inline.entries : f.id = id /\ f.token = token

(* The entry stands for the caller: over HTTP by the id that the start-up registry
   gives its token, on stdio by its token, or as the anonymous fallback of a read
   whose token no entry of that version carries. *)
StandsFor(e, version) ==
  LET token == EffectiveToken(call.request)
  IN IF setup.transport = "http" THEN e.id = call.identity /\ KnownAtStart(e.id, token)
     ELSE \/ token # "none" /\ e.token = token
          \/ /\ e.anonymous /\ call.request.kind = "read"
             /\ setup.allowAnon /\ setup.env # "production"
             /\ \A f \in version.entries : f.token # token

Grants(e) ==
  IF call.request.kind = "draft"
    THEN /\ e.writeCapability \notin {"false", "disabled"}
         /\ call.request.scope \in e.scopes \cup (IF e.anonymous THEN {} ELSE setup.extraScopes)
    ELSE /\ ActionAllowed(e, call.request.action)
         /\ \E contract \in e.allowedContracts :
              call.view = View(contract) /\ EnvAllowed(contract)

(* RevocationBites: what a governed call was given is what some entry grants that
   stood in the registry source at most one TTL before the answer, so that an edit
   of the file takes effect within the TTL however often the cache is used. On stdio
   that entry bears the token of the call; over HTTP the file settles only what the
   consumer may see, and the start-up registry who the bearer of the token is (see
   RotationBites). Calls that began before an edit, files that do not load and the
   cache refill in governance/pipeline.ts getConsumerRegistry could break it. *)
RevocationBites ==
  call.phase = "answered" /\ (setup.governed \/ call.request.kind = "draft") =>
    \E t \in 0..call.at :
      /\ call.at - t <= Ttl
      /\ \E version \in past[t] :
           Loads(version) /\ \E e \in version.entries : StandsFor(e, version) /\ Grants(e)

(* RotationBites: a token that the registry file bore at start-up opens nothing over
   HTTP once no version of the file bore it within the last TTL: the live rotation
   that the README and .env.example promise, with no restart. It is about startHttpServer,
   which resolves every bearer against the registry loaded once, when it starts. *)
RotationBites ==
  LET Bore(t) == \E version \in past[t] :
                   Loads(version) /\ \E e \in version.entries : e.token = call.request.token
  IN /\ setup.transport = "http" /\ call.phase = "answered"
     /\ setup.governed \/ call.request.kind = "draft"
     /\ Bore(0)
     => \E t \in 0..call.at : call.at - t <= Ttl /\ Bore(t)
============================================================================
