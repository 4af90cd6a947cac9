------------------------------- MODULE Profiles -------------------------------
(***************************************************************************)
(* The commands `add`, `edit` and `remove` on one profile: what they make  *)
(* of their options and of the document they find (cli.py, profiles.py).   *)
(*                                                                         *)
(* `edit` reads the profile, checks the options against it, prompts, and   *)
(* only then takes the lock and reads it again.  While it prompts, other   *)
(* commands run: their whole effect is one step.  The mutation engine is   *)
(* its contract (ProfileStore): what a commit stages, switches and retires *)
(* happens at once.                                                        *)
(***************************************************************************)
EXTENDS AuthenticationPlans

CONSTANTS AddRequests,   \* identity so far -> requests of `add`
          EditRequests,  \* revision -> requests of `edit`
          OtherRequests, \* revision -> edits that other commands make in between
          MaxRevision,   \* bound: edits of one profile
          MaxIdentities  \* bound: profiles that are added under the name

ASSUME BoundsAssumption == MaxRevision \in Nat \ {0} /\ MaxIdentities \in Nat \ {0}

\* What a command line may give an option: one of its choices, a kind of key
\* file, or some text.
OptionValues(name) ==
  CASE name = "transport"         -> Transports
    [] name = "auth_type"         -> KafkaTypes
    [] name = "registry_auth"     -> RegistryTypes
    [] name = "registry_provider" -> Providers
    [] name = "registry_url"      -> Urls
    [] name \in {"client_key_file", "registry_client_key_file"} -> {"plain", "encrypted"}
    [] OTHER -> {"given", ""}

\* The secrets that --replace-secret may name.
SecretTable ==
  ({"kafka"} \X {Password, PrivateKey, KeyPassword, ClientSecret})
    \cup ({"registry"} \X SecretFields)

WellFormed(request) ==
  /\ \A name \in DOMAIN request.on : request.on[name] \in OptionValues(name)
  /\ request.replace \subseteq SecretTable

ASSUME RequestsAssumption ==
  /\ AddRequests[MaxIdentities] = {}
  /\ \A i \in 0..MaxIdentities : \A request \in AddRequests[i] : WellFormed(request)
  /\ \A n \in 0..MaxRevision :
       \A request \in EditRequests[n] \cup OtherRequests[n] : WellFormed(request)

VARIABLES
  profile,   \* the document, None without a row
  identity,  \* the UUID of the latest profile of that name
  revision,
  vault,     \* references whose secret is in the vault
  stranded,  \* references stored by a command that then refused its input
  edit,      \* the edit in progress: request, document and revision it read, inputs
  outcome    \* of the last command

vars == <<profile, identity, revision, vault, stranded, edit, outcome>>

Init ==
  /\ profile = None /\ identity = 0 /\ revision = 0
  /\ vault = {} /\ stranded = {}
  /\ edit = None /\ outcome = "none"

-----------------------------------------------------------------------------
(* From a request to a document *)

NoPlan == Plan(NoAuth, {}, {}, {})

\* Mutant of AddViolation: the rules are left to the profile layer.
LeftForLater(o) == FALSE

\* add_rule_violation, edit_rule_violation: before any prompt; what is stored
\* of TLS is not looked at.
AddViolation(o) ==
  RuleViolation(NewTransport(o), Either(Value(o, "auth_type"), "none"),
                Either(Value(o, "registry_provider"), "confluent"), Value(o, "registry_url"),
                Either(Value(o, "registry_auth"), "none"),
                AnyGiven(o, {"registry_ca_file", "registry_client_certificate_file"}))

\* Mutant of EditViolation: the stored CA counts, whatever the edit does to it.
StoredTlsCounts(d, o) ==
  LET r == IF Unsets(o, "registry") THEN None ELSE d.registry IN
  RuleViolation(Either(Value(o, "transport"), d.kafka.transport),
                Either(Value(o, "auth_type"), d.kafka.auth.type),
                Either(Value(o, "registry_provider"), IF r = None THEN "confluent" ELSE r.provider),
                Either(Value(o, "registry_url"), IF r = None THEN None ELSE r.url),
                Either(Value(o, "registry_auth"), AuthOf(r).type),
                r # None /\ HasTls(r))

EditViolation(d, o) ==
  LET r == IF Unsets(o, "registry") THEN None ELSE d.registry IN
  RuleViolation(Either(Value(o, "transport"), d.kafka.transport),
                Either(Value(o, "auth_type"), d.kafka.auth.type),
                Either(Value(o, "registry_provider"), IF r = None THEN "confluent" ELSE r.provider),
                Either(Value(o, "registry_url"), IF r = None THEN None ELSE r.url),
                Either(Value(o, "registry_auth"), AuthOf(r).type),
                AnyGiven(o, {"registry_ca_file", "registry_client_certificate_file"}))

\* validate_edit_options: a field is set or unset, not both.
Contradicts(o) ==
  \E pair \in {<<"description", "description">>, <<"kafka.tls.ca", "ca_file">>,
               <<"kafka.auth.oauth.scopes", "oauth_scope">>,
               <<"kafka.auth.oauth.ca", "oauth_ca_file">>,
               <<"registry.tls.ca", "registry_ca_file">>,
               <<"registry.auth.oauth.ca", "registry_oauth_ca_file">>,
               <<"registry.auth.oauth.scopes", "registry_oauth_scope">>,
               <<"registry.auth.oauth.routing", "registry_oauth_routing">>} :
    Unsets(o, pair[1]) /\ Given(o, pair[2])

\* The inputs of `edit`: Kafka's and the Registry's.
EditInputs(d, o) ==
  IF Contradicts(o) THEN {}
  ELSE {[kafka |-> k, registry |-> r] :
          k \in KafkaEditInputs(o, d.kafka.auth), r \in RegistryEditInputs(o, d.registry)}

\* validate_profile and validate_stored_registry of the finished document.
Verdict(d) ==
  IF DocumentViolation(d) THEN "forbidden"
  ELSE IF ~FitsSchema(d) THEN "internal"
  ELSE IF ~Connects(d.registry) THEN "misrouted"
  ELSE "done"

\* _validate_retained_registry_auth: with a new provider, the document with what
\* it keeps must pass as a whole.
RetainedFits(d, e) ==
  LET old == d.registry
      new == e.registry IN
  (old # None /\ new # None /\ old.provider # new.provider) => Verdict(e) = "done"

\* Mutant of RegistryEditPlans: credentials of a removed Registry are forgotten.
DropRegistry(d, e, in) ==
  IF in # None THEN RegistryPlans(d.registry, in)
  ELSE IF ~RetainedFits(d, e) THEN {}
  ELSE {NoPlan}

\* requested_registry_edit_plan
RegistryEditPlans(d, e, in) ==
  LET old == AuthOf(d.registry)
      new == AuthOf(e.registry) IN
  IF in # None THEN RegistryPlans(d.registry, in)
  ELSE IF ~RetainedFits(d, e) THEN {}
  ELSE IF old.refs = new.refs THEN {NoPlan}
  ELSE {Plan(NoAuth, old.refs, {}, {})}

KafkaEditPlans(current, in, transport) ==
  IF in = None THEN {NoPlan}
  ELSE {p \in KafkaPlans(current, in) : ~RuleViolation(transport, p.auth.type, None, None, "none", FALSE)}

\* apply_edit_authentication_plans, apply_new_authentication_plans
WithAuth(d, in, plans, made) ==
  [d EXCEPT
     !.kafka.auth = IF in.kafka = None THEN @ ELSE AuthDocument(plans.kafka, "kafka", made),
     !.registry = IF in.registry = None \/ @ = None THEN @
                  ELSE [@ EXCEPT !.ca = in.registry.tlsCa,
                          !.auth = AuthDocument(plans.registry, "registry", made)]]

Staged(plans, made) ==
  {Reference("kafka", f, made) : f \in plans.kafka.staged}
    \cup {Reference("registry", f, made) : f \in plans.registry.staged}
\* Superseded by a new secret, or not needed any more.
Retired(d, plans) ==
  plans.kafka.retired \cup plans.registry.retired
    \cup {r \in d.kafka.auth.refs : r.field \in plans.kafka.staged}
    \cup {r \in AuthOf(d.registry).refs : r.field \in plans.registry.staged}

\* Behind the lock: the documents an input may become, with what is staged and
\* retired for each; none when it is refused before anything is stored.
EditResults(d, o, in, made) ==
  LET result(e, plans) ==
        [document |-> WithAuth(e, in, plans, made),
         staged |-> Staged(plans, made), retired |-> Retired(d, plans)] IN
  IF RequestConflicts(o, in.kafka, in.registry) THEN {}
  ELSE UNION {{result(e, [kafka |-> k, registry |-> r]) :
                 k \in KafkaEditPlans(d.kafka.auth, in.kafka, e.kafka.transport),
                 r \in RegistryEditPlans(d, e, in.registry)} :
               e \in Edited(d, o)}

AddInputs(o) ==
  {[kafka |-> k, registry |-> r] : k \in KafkaAddInputs(o), r \in RegistryAddInputs(o)}

\* add_profile: the document is checked without its credentials first.
AddResults(o, in, made) ==
  LET result(e, plans) ==
        [document |-> WithAuth(e, in, plans, made),
         staged |-> Staged(plans, made), retired |-> {}] IN
  UNION {{result(e, [kafka |-> k, registry |-> r]) :
            k \in KafkaEditPlans(NoAuth, in.kafka, e.kafka.transport),
            r \in IF in.registry = None THEN {NoPlan} ELSE RegistryPlans(None, in.registry)} :
          e \in {d \in NewDocuments(o) : Verdict(d) = "done"}}

-----------------------------------------------------------------------------
(* Commands *)

\* Nothing is read between the start of an edit and its prompts: what others do
\* then they may as well do while it prompts.
Asking == edit # None /\ edit.phase = "asked"

\* A request as its command makes it: its values carry the number of the
\* revision it asks for.
Asked(request, number) ==
  [on |-> [name \in DOMAIN request.on |->
             IF request.on[name] = "given" THEN number
             ELSE IF request.on[name] = "" THEN Empty ELSE request.on[name]],
   unset |-> request.unset, replace |-> request.replace, by |-> number]

\* secret_reference: an identifier that no reference in use has.
FreshIdentifier ==
  CHOOSE n \in 1..(Cardinality(vault) + 1) : \A r \in vault : r.made # n

Stores(result) ==
  /\ outcome' = "done"
  /\ profile' = result.document /\ revision' = revision + 1
  /\ vault' = (vault \cup result.staged) \ result.retired
  /\ UNCHANGED stranded

\* The finished document is checked when its secrets are in the vault already.
RefusesLate(result) ==
  /\ outcome' = Verdict(result.document)
  /\ vault' = vault \cup result.staged
  /\ stranded' = stranded \cup result.staged
  /\ UNCHANGED <<profile, revision>>

Concludes(result) ==
  IF Verdict(result.document) = "done" THEN Stores(result) ELSE RefusesLate(result)

\* A request that is refused before anything is stored changes nothing.
Add(request) ==
  LET o == Asked(request, 1) IN
  /\ profile = None /\ ~Asking /\ stranded = {}
  /\ ~AddViolation(o)
  /\ \E in \in AddInputs(o) :
       \E result \in AddResults(o, in, FreshIdentifier) :
         /\ Concludes(result)
         /\ identity' = IF profile' = None THEN identity ELSE identity + 1
  /\ UNCHANGED edit

\* The edit command starts: it reads the profile without the lock.  A bound: a
\* late refusal is repaired first (CredentialMutations has them side by side).
Ask(request) ==
  /\ profile # None /\ edit = None /\ revision < MaxRevision /\ stranded = {}
  /\ edit' = [phase |-> "asked", request |-> Asked(request, revision + 1), read |-> profile,
              generation |-> <<identity, revision>>, in |-> None]
  /\ outcome' = "none"
  /\ UNCHANGED <<profile, identity, revision, vault, stranded>>

\* Options are judged on what was read; prompts and files give the inputs.
Collect ==
  /\ edit # None
  /\ edit.phase = "asked" /\ ~EditViolation(edit.read, edit.request)
  /\ \E in \in EditInputs(edit.read, edit.request) :
       edit' = [edit EXCEPT !.phase = "collected", !.in = in]
  /\ UNCHANGED <<profile, identity, revision, vault, stranded, outcome>>

Refuse ==
  /\ edit # None
  /\ edit.phase = "asked"
  /\ EditViolation(edit.read, edit.request) \/ EditInputs(edit.read, edit.request) = {}
  /\ edit' = None /\ outcome' = "refused"
  /\ UNCHANGED <<profile, identity, revision, vault, stranded>>

\* Mutant of SameGeneration: only the revision is compared.
SameRevision == edit.generation[2] = revision

\* _validate_expected_generation
SameGeneration == profile # None /\ edit.generation = <<identity, revision>>

Commit ==
  /\ edit # None
  /\ edit.phase = "collected" /\ SameGeneration
  /\ LET results == EditResults(profile, edit.request, edit.in, FreshIdentifier) IN
     \/ \E result \in results : Concludes(result)
     \/ /\ results = {}
        /\ outcome' = "refused"
        /\ UNCHANGED <<profile, revision, vault, stranded>>
  /\ edit' = None
  /\ UNCHANGED identity

Conflict ==
  /\ edit # None
  /\ edit.phase = "collected" /\ ~SameGeneration
  /\ edit' = None /\ outcome' = "refused"
  /\ UNCHANGED <<profile, identity, revision, vault, stranded>>

\* remove: also by others while an edit prompts.
Remove ==
  /\ profile # None /\ ~Asking
  /\ profile' = None /\ revision' = 0
  /\ vault' = vault \ RefsOf(profile)
  /\ outcome' = "none"
  /\ UNCHANGED <<identity, stranded, edit>>

\* An edit of another process, from reading to committing.
OtherEdit(request) ==
  LET o == Asked(request, revision + 1) IN
  /\ edit # None /\ ~Asking /\ profile # None /\ revision < MaxRevision
  /\ ~EditViolation(profile, o)
  /\ \E in \in EditInputs(profile, o) :
       \E result \in EditResults(profile, o, in, FreshIdentifier) :
         Verdict(result.document) = "done" /\ Stores(result)
  /\ UNCHANGED <<identity, edit>>

\* What was journaled for a secret that no document refers to is cleaned up.
Repair ==
  /\ stranded # {}
  /\ vault' = vault \ stranded /\ stranded' = {}
  /\ UNCHANGED <<profile, identity, revision, edit, outcome>>

Next ==
  \/ \E request \in AddRequests[identity] : Add(request)
  \/ \E request \in EditRequests[revision] : Ask(request)
  \/ Collect \/ Refuse \/ Commit \/ Conflict
  \/ Remove \/ Repair
  \/ \E request \in OtherRequests[revision] : OtherEdit(request)

Spec == Init /\ [][Next]_vars
-----------------------------------------------------------------------------
(* Properties *)

Committed == edit # None /\ edit' = None /\ outcome' = "done"

\* The vault holds exactly the secrets that the document refers to: no plan of
\* an edit forgets a secret it supersedes, or deletes one that the document it
\* writes still needs.  What a late refusal leaves is apart, until repaired.
VaultExact ==
  vault = (IF profile = None THEN {} ELSE RefsOf(profile)) \cup stranded

\* edit_rule_violation "never rejects an edit the profile layer would accept".
EarlyCheckIsSound ==
  (Asking /\ EditViolation(edit.read, edit.request)) =>
    \A in \in EditInputs(edit.read, edit.request) :
      \A result \in EditResults(edit.read, edit.request, in, FreshIdentifier) :
        Verdict(result.document) # "done"

\* An edit changes the document its options and prompts were made for: not one
\* that another command has edited, or removed and added again, meanwhile.
NothingLost == [][Committed => profile = edit.read]_vars

\* A combination of options that the connection rules forbid is refused before
\* a secret is stored for it.  One is not seen in time: the CA that a Registry
\* has stored, for an edit that moves the Registry to http.  (What no rule
\* forbids, routing for Apicurio and an empty routing, is refused late too.)
StoredCaMeetsHttp ==
  /\ edit # None
  /\ Value(edit.request, "registry_url") = "http"
  /\ edit.read.registry # None /\ HasTls(edit.read.registry)
JudgedBeforeStored ==
  [][(stranded' \ stranded # {} /\ outcome' = "forbidden") => StoredCaMeetsHttp]_vars

\* Every document that the rules let through fits the schema ("a schema failure
\* on a new or edited profile is an internal error rather than a user mistake").
NoInternalError == outcome # "internal"

\* The options that set or unset a field.
Named(o) == DOMAIN o.on \cup o.unset

KafkaNames ==
  [type |-> {"auth_type"}, username |-> {"username"},
   certificate |-> {"client_certificate_file"},
   tokenUrl |-> {"oauth_token_url"}, clientId |-> {"oauth_client_id"},
   scopes |-> {"oauth_scope", "kafka.auth.oauth.scopes"},
   ca |-> {"oauth_ca_file", "kafka.auth.oauth.ca"}, routing |-> {}]
RegistryNames ==
  [type |-> {"registry_auth"}, username |-> {"registry_username"},
   certificate |-> {"registry_client_certificate_file"},
   tokenUrl |-> {"registry_oauth_token_url"}, clientId |-> {"registry_oauth_client_id"},
   scopes |-> {"registry_oauth_scope", "registry.auth.oauth.scopes"},
   ca |-> {"registry_oauth_ca_file", "registry.auth.oauth.ca"},
   routing |-> {"registry_oauth_routing", "registry.auth.oauth.routing"}]

KindOf(type) == IF type \in PasswordTypes THEN "password" ELSE type

\* What the request `o` may change of the `auth` object of a service; a key comes
\* with its certificate.
KeepsAuth(o, service, old, new, names) ==
  LET asks(f)   == names[f] \cap Named(o) # {}
      newIdentity == asks("certificate") \/ PrivateKey \in Replaces(o, service) IN
  \/ KindOf(old.type) # KindOf(new.type) /\ asks("type")
  \/ /\ \A f \in DOMAIN names : old[f] # new[f] => asks(f) \/ (f = "certificate" /\ newIdentity)
     /\ \A f \in SecretFields : Of(old.refs, f) # Of(new.refs, f) =>
          f \in Replaces(o, service) \/ (f \in {PrivateKey, KeyPassword} /\ newIdentity)

\* What an edit with the options `o` may change of a document.
Keeps(o, old, new) ==
  LET named == Named(o) IN
  /\ old.description # new.description => "description" \in named
  /\ old.kafka.transport # new.kafka.transport => "transport" \in named
  /\ old.kafka.ca # new.kafka.ca => named \cap {"ca_file", "kafka.tls.ca", "transport"} # {}
  /\ KeepsAuth(o, "kafka", old.kafka.auth, new.kafka.auth, KafkaNames)
  /\ new.registry = None => old.registry = None \/ "registry" \in named
  /\ (old.registry = None /\ new.registry # None) => "registry_url" \in named
  /\ (old.registry # None /\ new.registry # None) =>
       /\ old.registry.provider # new.registry.provider => "registry_provider" \in named
       /\ old.registry.url # new.registry.url => "registry_url" \in named
       /\ old.registry.ca # new.registry.ca =>
            named \cap {"registry_ca_file", "registry.tls.ca"} # {}
       /\ KeepsAuth(o, "registry", old.registry.auth, new.registry.auth, RegistryNames)

\* An edit changes only the fields its options name.  Two things go with others:
\* TLS material with the transport, and what belongs to an authentication with
\* its type.
KeepsUnasked == [][Committed => Keeps(edit.request, profile, profile')]_vars

\* What the option says is what the document has.
SetsText(o, auth, f, option) == Value(o, option) \notin {None, Empty} => auth[f] = Value(o, option)
IsReplaced(old, new, f) == Of(new.refs, f) # {} /\ Of(new.refs, f) \cap Of(old.refs, f) = {}

\* What the options `o` ask of an authentication, but for what is ignored.
KafkaAuthDone(o, old, new) ==
  /\ new.type = Either(Value(o, "auth_type"), new.type)
  /\ new.type # "mtls" => SetsText(o, new, "username", "username")
  /\ SetsText(o, new, "certificate", "client_certificate_file")
  /\ SetsText(o, new, "tokenUrl", "oauth_token_url")
  /\ SetsText(o, new, "clientId", "oauth_client_id")
  /\ SetsText(o, new, "scopes", "oauth_scope")
  /\ SetsText(o, new, "ca", "oauth_ca_file")
  /\ Unsets(o, "kafka.auth.oauth.scopes") => new.scopes = Empty
  /\ Unsets(o, "kafka.auth.oauth.ca") => new.ca = None
  /\ \A f \in Replaces(o, "kafka") \ {KeyPassword} :
       IsReplaced(old, new, f) \/ (f = ClientSecret /\ new.type = "mtls")

RegistryAuthDone(o, old, new) ==
  /\ new.type = Either(Value(o, "registry_auth"), new.type)
  /\ SetsText(o, new, "username", "registry_username")
  /\ SetsText(o, new, "certificate", "registry_client_certificate_file")
  /\ SetsText(o, new, "tokenUrl", "registry_oauth_token_url")
  /\ SetsText(o, new, "clientId", "registry_oauth_client_id")
  /\ SetsText(o, new, "scopes", "registry_oauth_scope")
  /\ SetsText(o, new, "ca", "registry_oauth_ca_file")
  /\ SetsText(o, new, "routing", "registry_oauth_routing")
  /\ Unsets(o, "registry.auth.oauth.scopes") => new.scopes = Empty
  /\ Unsets(o, "registry.auth.oauth.ca") => new.ca = None
  /\ Unsets(o, "registry.auth.oauth.routing") => new.routing = None
  /\ \A f \in Replaces(o, "registry") \ {KeyPassword} : IsReplaced(old, new, f)

\* What they ask of a document.
Done(o, old, new) ==
  /\ Given(o, "description") => new.description = Value(o, "description")
  /\ Unsets(o, "description") => new.description = None
  /\ new.kafka.transport = Either(Value(o, "transport"), new.kafka.transport)
  /\ Given(o, "ca_file") => new.kafka.ca = Value(o, "ca_file")
  /\ Unsets(o, "kafka.tls.ca") => new.kafka.ca = None
  /\ KafkaAuthDone(o, old.kafka.auth, new.kafka.auth)
  /\ Unsets(o, "registry") => new.registry = None
  /\ AnyGiven(o, {"registry_url", "registry_provider"}) =>
       /\ new.registry.url = Either(Value(o, "registry_url"), new.registry.url)
       /\ new.registry.provider = Either(Value(o, "registry_provider"), new.registry.provider)
  /\ Given(o, "registry_ca_file") => new.registry.ca = Value(o, "registry_ca_file")
  /\ (Unsets(o, "registry.tls.ca") /\ new.registry # None) =>
       new.registry.ca = None \/ new.registry.auth.type = "none"
  /\ RegistryAuthDone(o, AuthOf(old.registry), AuthOf(new.registry))

\* An accepted edit has done all it was asked: every option that it took is in
\* the new document, every unset field is gone, every secret named is new.
\* Three options are taken and ignored: --username and the replacement of an
\* OAuth secret for a Kafka mTLS identity, and --unset registry.tls.ca for a
\* Registry without authentication.  A key password exists for encrypted keys.
AskedIsDone == [][Committed => Done(edit.request, profile, profile')]_vars
===============================================================================
