---------------------------- MODULE ProfilesProofs ----------------------------
(***************************************************************************)
(* Proofs about Profiles, for every set of requests and every number of    *)
(* revisions: the vault holds exactly the secrets of the document, an edit *)
(* changes only the document it read, does all that its options ask and    *)
(* nothing else, and the rules that are checked before the prompts are the *)
(* rules of the profile layer.                                             *)
(***************************************************************************)
EXTENDS Profiles, FiniteSetTheorems, TLAPS

-----------------------------------------------------------------------------
(* The invariant *)

\* The options whose value is no text.
Choices ==
  {"transport", "auth_type", "registry_auth", "registry_provider", "registry_url",
   "client_key_file", "registry_client_key_file"}

\* The options of a command, as Asked makes them of a well-formed request.
TypedOptions(o) ==
  /\ o.by \in Nat
  /\ \A name \in DOMAIN o.on \ Choices : o.on[name] \in Nat
  /\ \A name \in DOMAIN o.on \cap Choices : o.on[name] \in OptionValues(name)
  /\ o.replace \subseteq SecretTable

TypeOK ==
  /\ profile \in Documents \cup {None}
  /\ identity \in 0..MaxIdentities /\ revision \in 0..MaxRevision
  /\ vault \subseteq References /\ IsFiniteSet(vault)
  /\ stranded \subseteq References

\* A reference says which service it is for.
Tagged(d) ==
  /\ \A r \in d.kafka.auth.refs : r.service = "kafka"
  /\ \A r \in AuthOf(d.registry).refs : r.service = "registry"

\* What is stored was judged, and what a late refusal left is no part of it.
StoreInv ==
  /\ VaultExact
  /\ profile = None => revision = 0
  /\ profile # None =>
       Verdict(profile) = "done" /\ Tagged(profile) /\ stranded \cap RefsOf(profile) = {}

\* The generation that an edit read is not ahead of the stored one; as long as
\* the two agree the document is the one it read.  Its inputs were collected for
\* options that no rule forbids.
EditInv ==
  edit # None =>
    /\ edit = [phase |-> edit.phase, request |-> edit.request, read |-> edit.read,
               generation |-> edit.generation, in |-> edit.in]
    /\ edit.read \in Documents /\ Verdict(edit.read) = "done"
    /\ TypedOptions(edit.request)
    /\ edit.generation \in Nat \X Nat
    /\ edit.generation[1] <= identity /\ edit.generation[2] < MaxRevision
    /\ (profile # None /\ edit.generation[1] = identity) =>
         /\ edit.generation[2] <= revision
         /\ edit.generation[2] = revision => profile = edit.read
    /\ IF edit.phase = "asked" THEN outcome = "none"
       ELSE /\ edit.in \in EditInputs(edit.read, edit.request)
            /\ ~EditViolation(edit.read, edit.request)

IInv == TypeOK /\ StoreInv /\ EditInv

-----------------------------------------------------------------------------
(* Types of requests, inputs and plans *)

LEMMA ValueType ==
  ASSUME NEW o, TypedOptions(o), NEW name, name \notin Choices
  PROVE  Value(o, name) \in Values /\ (Given(o, name) <=> Value(o, name) # None)
BY NoneAssumption DEF TypedOptions, Value, Given, Values

LEMMA ChoiceType ==
  ASSUME NEW o, TypedOptions(o)
  PROVE  /\ Value(o, "transport") \in Transports \cup {None}
         /\ Value(o, "auth_type") \in KafkaTypes \cup {None}
         /\ Value(o, "registry_auth") \in RegistryTypes \cup {None}
         /\ Value(o, "registry_provider") \in Providers \cup {None}
         /\ Value(o, "registry_url") \in Urls \cup {None}
<1>1. ASSUME NEW name \in Choices, NEW values, OptionValues(name) = values
      PROVE  Value(o, name) \in values \cup {None}
  BY <1>1 DEF TypedOptions, Value, Given
<1>2. Value(o, "transport") \in Transports \cup {None}
  BY <1>1 DEF Choices, OptionValues
<1>3. Value(o, "auth_type") \in KafkaTypes \cup {None}
  BY <1>1 DEF Choices, OptionValues
<1>4. Value(o, "registry_auth") \in RegistryTypes \cup {None}
  BY <1>1 DEF Choices, OptionValues
<1>5. Value(o, "registry_provider") \in Providers \cup {None}
  BY <1>1 DEF Choices, OptionValues
<1>6. Value(o, "registry_url") \in Urls \cup {None}
  BY <1>1 DEF Choices, OptionValues
<1> QED
  BY <1>2, <1>3, <1>4, <1>5, <1>6

\* An option of the list of choices that is given has a value.
LEMMA ChoiceGiven ==
  ASSUME NEW o, TypedOptions(o), NEW name \in {"transport", "registry_provider", "registry_url"},
         Given(o, name)
  PROVE  Value(o, name) # None
<1>1. o.on[name] \in OptionValues(name)
  BY DEF TypedOptions, Given, Choices
<1>2. None \notin OptionValues(name)
  <2>1. \/ OptionValues(name) = Transports
        \/ OptionValues(name) = Providers
        \/ OptionValues(name) = Urls
    BY DEF OptionValues
  <2> QED
    BY <2>1, NoneAssumption
<1> QED
  BY <1>1, <1>2 DEF Value

\* What is asked for is well formed, when the request is.
LEMMA AskedTyped ==
  ASSUME NEW request, WellFormed(request), NEW number \in Nat
  PROVE  TypedOptions(Asked(request, number))
<1> DEFINE o == Asked(request, number)
           was(name) == request.on[name]
<1>1. /\ DOMAIN o.on = DOMAIN request.on /\ o.by = number /\ o.replace = request.replace
      /\ \A name \in DOMAIN o.on :
           o.on[name] = IF was(name) = "given" THEN number
                        ELSE IF was(name) = "" THEN 0 ELSE was(name)
  BY DEF Asked, Empty
<1>2. \A name \in DOMAIN o.on : was(name) \in OptionValues(name)
  BY <1>1 DEF WellFormed
<1>3. ASSUME NEW name \in DOMAIN o.on, name \notin Choices
      PROVE  o.on[name] \in Nat
  <2>1. OptionValues(name) = {"given", ""}
    BY <1>3 DEF OptionValues, Choices
  <2>2. was(name) = "given" \/ was(name) = ""
    BY <1>2, <2>1
  <2>3. o.on[name] = number \/ o.on[name] = 0
    BY <1>1, <2>2
  <2> QED
    BY <2>3
<1>4. ASSUME NEW name \in DOMAIN o.on, name \in Choices
      PROVE  o.on[name] \in OptionValues(name)
  <2>1. "given" \notin OptionValues(name) /\ "" \notin OptionValues(name)
    BY <1>4 DEF OptionValues, Choices, Transports, KafkaTypes, RegistryTypes, Providers, Urls
  <2> QED
    BY <1>1, <1>2, <2>1
<1>5. o.replace \subseteq SecretTable
  BY <1>1 DEF WellFormed
<1> QED
  BY <1>1, <1>3, <1>4, <1>5 DEF TypedOptions

LEMMA NothingTyped ==
  /\ NoAuth \in Auths(KafkaTypes) /\ NoAuth \in Auths(RegistryTypes)
  /\ NoInput \in Inputs(KafkaTypes) /\ NoInput \in Inputs(RegistryTypes)
BY DEF NoAuth, NoInput, Auths, Inputs, KafkaTypes, RegistryTypes, Values

\* The edits of the Kafka connection keep its authentication, and its transport
\* is what the rules are checked with.
LEMMA TransportEdited ==
  ASSUME NEW d \in KafkaConnections, NEW o, TypedOptions(o), NEW k \in TransportEdits(d, o)
  PROVE  /\ k \in KafkaConnections /\ k.auth = d.auth
         /\ k.transport = Either(Value(o, "transport"), d.transport)
<1>1. Value(o, "ca_file") \in Values
  BY ValueType DEF Choices
<1>2. Either(Value(o, "transport"), d.transport) \in Transports
  BY ChoiceType DEF Either, KafkaConnections
<1> DEFINE t == Either(Value(o, "transport"), d.transport)
           b == d.tls \/ Given(o, "transport")
           e == IF t = "plaintext" /\ Given(o, "transport")
                THEN [d EXCEPT !.transport = t, !.tls = FALSE, !.ca = None]
                ELSE [d EXCEPT !.transport = t, !.tls = b]
           g == Given(o, "ca_file")
           v == Value(o, "ca_file")
<1>3. k = e \/ k = [e EXCEPT !.tls = g, !.ca = v]
  BY DEF TransportEdits
<1>4. b \in BOOLEAN /\ g \in BOOLEAN /\ None \in Values
  BY DEF Given, Values
<1>5. e \in KafkaConnections /\ e.auth = d.auth /\ e.transport = t
  <2> HIDE DEF t, b
  <2> QED
    BY <1>2, <1>4 DEF KafkaConnections, t
<1> HIDE DEF e, t, b, g, v
<1>6. k \in KafkaConnections /\ k.auth = e.auth /\ k.transport = e.transport
  BY <1>1, <1>3, <1>4, <1>5 DEF KafkaConnections, v
<1> QED
  BY <1>5, <1>6 DEF t

\* The stored CA goes with a change of transport, or is set or unset.
LEMMA TransportCa ==
  ASSUME NEW d \in KafkaConnections, NEW o, NEW k \in TransportEdits(d, o)
  PROVE  /\ k.ca # d.ca =>
              Given(o, "transport") \/ Given(o, "ca_file") \/ Unsets(o, "kafka.tls.ca")
         /\ Given(o, "ca_file") \/ Unsets(o, "kafka.tls.ca") => k.ca = Value(o, "ca_file")
<1> DEFINE t == Either(Value(o, "transport"), d.transport)
           b == d.tls \/ Given(o, "transport")
           e == IF t = "plaintext" /\ Given(o, "transport")
                THEN [d EXCEPT !.transport = t, !.tls = FALSE, !.ca = None]
                ELSE [d EXCEPT !.transport = t, !.tls = b]
           g == Given(o, "ca_file")
           v == Value(o, "ca_file")
<1>1. \/ k = e /\ ~g /\ ~Unsets(o, "kafka.tls.ca")
      \/ k = [e EXCEPT !.tls = g, !.ca = v] /\ (g \/ Unsets(o, "kafka.tls.ca"))
  BY DEF TransportEdits
<1>2. DOMAIN e = {"transport", "tls", "ca", "auth"} /\ (~Given(o, "transport") => e.ca = d.ca)
  <2> HIDE DEF t, b
  <2> QED
    BY DEF KafkaConnections
<1> HIDE DEF e, g, v
<1> QED
  BY <1>1, <1>2 DEF g, v

\* The edits of the Registry keep its trust and its authentication.
LEMMA RegistryEdited ==
  ASSUME NEW registry \in Registries \cup {None}, NEW o, TypedOptions(o),
         NEW r \in RegistryEdits(registry, o)
  PROVE  /\ r \in Registries \cup {None}
         /\ Unsets(o, "registry") => r = None
         /\ (r = None /\ ~Unsets(o, "registry")) =>
              /\ registry = None
              /\ Value(o, "registry_url") = None /\ Value(o, "registry_provider") = None
         /\ r # None =>
              IF registry = None
              THEN /\ r.auth = NoAuth /\ r.ca = None
                   /\ r.url = Value(o, "registry_url")
                   /\ r.provider = Either(Value(o, "registry_provider"), "confluent")
              ELSE /\ r.auth = registry.auth /\ r.ca = registry.ca
                   /\ r.url = Either(Value(o, "registry_url"), registry.url)
                   /\ r.provider = Either(Value(o, "registry_provider"), registry.provider)
<1> DEFINE url == Value(o, "registry_url")
           provider == Value(o, "registry_provider")
<1>1. url \in Urls \cup {None} /\ provider \in Providers \cup {None}
  BY ChoiceType
<1>2. CASE Unsets(o, "registry")
  BY <1>2 DEF RegistryEdits
<1>3. CASE ~Unsets(o, "registry") /\ provider = None /\ url = None
  <2>1. r = registry
    BY <1>3 DEF RegistryEdits
  <2> QED
    BY <1>3, <2>1 DEF Either
<1>4. CASE ~Unsets(o, "registry") /\ ~(provider = None /\ url = None) /\ registry = None
  <2>1. /\ url # None
        /\ r = [provider |-> Either(provider, "confluent"), url |-> url,
                ca |-> None, auth |-> NoAuth]
    BY <1>4 DEF RegistryEdits
  <2>2. r \in Registries
    BY <1>1, <2>1, NothingTyped DEF Registries, Either, Providers, Values
  <2> QED
    BY <1>4, <2>1, <2>2, NoneAssumption
<1>5. CASE ~Unsets(o, "registry") /\ ~(provider = None /\ url = None) /\ registry # None
  <2>1. r = [registry EXCEPT !.provider = Either(provider, @), !.url = Either(url, @)]
    BY <1>5 DEF RegistryEdits
  <2> DEFINE p == Either(provider, registry.provider)
             u == Either(url, registry.url)
  <2>2. p \in Providers /\ u \in Urls /\ registry \in Registries
    BY <1>1, <1>5 DEF Either, Registries
  <2>3. r = [registry EXCEPT !.provider = p, !.url = u]
    BY <2>1, <2>2 DEF Registries
  <2> HIDE DEF p, u
  <2>4. r \in Registries /\ r.auth = registry.auth /\ r.ca = registry.ca
        /\ r.url = u /\ r.provider = p
    BY <2>2, <2>3 DEF Registries
  <2> QED
    BY <1>5, <2>4, NoneAssumption DEF p, u
<1> QED
  BY <1>2, <1>3, <1>4, <1>5

\* The documents of an edit and of an addition, before their authentication.
LEMMA EditedTyped ==
  ASSUME NEW d \in Documents, NEW o, TypedOptions(o), NEW e \in Edited(d, o)
  PROVE  /\ e \in Documents
         /\ e.kafka \in TransportEdits(d.kafka, o)
         /\ e.registry \in RegistryEdits(d.registry, o)
         /\ e.description = DescriptionEdit(d, o)
<1>1. PICK k \in TransportEdits(d.kafka, o), r \in RegistryEdits(d.registry, o) :
        e = [description |-> DescriptionEdit(d, o), kafka |-> k, registry |-> r]
  BY DEF Edited
<1>2. d.kafka \in KafkaConnections /\ d.registry \in Registries \cup {None}
  BY DEF Documents
<1>3. k \in KafkaConnections /\ r \in Registries \cup {None}
  BY <1>2, TransportEdited, RegistryEdited
<1>4. DescriptionEdit(d, o) \in Values
  BY ValueType DEF DescriptionEdit, Either, Values, Documents, Choices
<1> QED
  BY <1>1, <1>3, <1>4 DEF Documents

LEMMA NewTyped ==
  ASSUME NEW o, TypedOptions(o), NEW d \in NewDocuments(o)
  PROVE  /\ d \in Documents
         /\ d.kafka.auth = NoAuth /\ d.kafka.transport = NewTransport(o)
         /\ d.registry = None <=> ~Given(o, "registry_url")
         /\ d.registry # None =>
              /\ d.registry.auth = NoAuth /\ d.registry.ca = None
              /\ d.registry.url = Value(o, "registry_url")
              /\ d.registry.provider = Either(Value(o, "registry_provider"), "confluent")
<1> DEFINE k == [transport |-> NewTransport(o), tls |-> Given(o, "ca_file"),
                 ca |-> Value(o, "ca_file"), auth |-> NoAuth]
           r == [provider |-> Either(Value(o, "registry_provider"), "confluent"),
                 url |-> Value(o, "registry_url"), ca |-> None, auth |-> NoAuth]
<1>1. d = [description |-> Value(o, "description"), kafka |-> k,
           registry |-> IF ~Given(o, "registry_url") THEN None ELSE r]
  BY DEF NewDocuments
<1>2. k \in KafkaConnections
  <2>1. NewTransport(o) \in Transports
    BY ChoiceType DEF NewTransport, Either, Transports
  <2>2. Value(o, "ca_file") \in Values
    BY ValueType DEF Choices
  <2> QED
    BY <2>1, <2>2, NothingTyped DEF KafkaConnections, Given
<1>3. Given(o, "registry_url") => r \in Registries
  <2>1. Given(o, "registry_url") => Value(o, "registry_url") \in Urls
    BY ChoiceType, ChoiceGiven
  <2> QED
    BY <2>1, ChoiceType, NothingTyped DEF Registries, Either, Providers, Values
<1>4. Value(o, "description") \in Values
  BY ValueType DEF Choices
<1> HIDE DEF k, r
<1>5. /\ d \in Documents /\ d.kafka = k
      /\ d.registry = None <=> ~Given(o, "registry_url")
      /\ d.registry # None => d.registry = r
  BY <1>1, <1>2, <1>3, <1>4, NoneAssumption DEF Documents
<1> QED
  BY <1>5 DEF k, r

\* An input has the type it was made for, and is not None.
LEMMA InputIsSomething ==
  ASSUME NEW in, in \in Inputs(KafkaTypes) \/ in \in Inputs(RegistryTypes)
  PROVE  in # None
<1>1. in \in Inputs(KafkaTypes \cup RegistryTypes)
  BY DEF Inputs
<1> QED
  BY <1>1, InputAssumption

LEMMA KeySecretsTyped ==
  ASSUME NEW file
  PROVE  KeySecrets(file) \subseteq {PrivateKey, KeyPassword}
BY DEF KeySecrets

LEMMA PasswordInputsTyped ==
  ASSUME NEW type \in KafkaTypes, NEW o, TypedOptions(o), NEW required, NEW replace,
         NEW in \in PasswordInputs(type, o, required, replace)
  PROVE  in \in Inputs(KafkaTypes) /\ in.type = type
<1> DEFINE secrets == IF required \/ replace # {} THEN {Password} ELSE {}
<1>1. in = [NoInput EXCEPT !.type = type, !.username = Value(o, "username"), !.secrets = secrets]
  BY DEF PasswordInputs
<1>2. Value(o, "username") \in Values /\ secrets \subseteq SecretFields
  BY ValueType DEF Choices, SecretFields
<1> HIDE DEF secrets
<1> QED
  BY <1>1, <1>2 DEF NoInput, Inputs, Values

LEMMA MtlsInputsTyped ==
  ASSUME NEW o, TypedOptions(o), NEW replace, NEW in \in MtlsInputs(o, replace)
  PROVE  in \in Inputs(KafkaTypes) /\ in.type = "mtls"
<1> DEFINE certificate == Either(Value(o, "client_certificate_file"), o.by)
<1>1. \/ in = [NoInput EXCEPT !.type = "mtls"]
      \/ \E key : in = [NoInput EXCEPT !.type = "mtls", !.secrets = KeySecrets(key),
                          !.certificate = certificate]
  BY DEF MtlsInputs
<1>2. certificate \in Values
  BY ValueType DEF Choices, Either, TypedOptions, Values
<1> HIDE DEF certificate
<1>3. CASE in = [NoInput EXCEPT !.type = "mtls"]
  BY <1>3 DEF NoInput, Inputs, Values, KafkaTypes
<1>4. ASSUME NEW key,
             in = [NoInput EXCEPT !.type = "mtls", !.secrets = KeySecrets(key),
                     !.certificate = certificate]
      PROVE  in \in Inputs(KafkaTypes) /\ in.type = "mtls"
  <2>1. KeySecrets(key) \subseteq SecretFields
    BY KeySecretsTyped DEF SecretFields
  <2> QED
    BY <1>2, <1>4, <2>1 DEF NoInput, Inputs, Values, KafkaTypes
<1> QED
  BY <1>1, <1>3, <1>4

LEMMA OAuthInputsTyped ==
  ASSUME NEW o, TypedOptions(o), NEW scopes \in Values, NEW required, NEW replace,
         NEW in \in OAuthInputs(o, scopes, required, replace)
  PROVE  in \in Inputs(KafkaTypes) /\ in.type = "oauth"
<1> DEFINE secrets == IF required \/ replace # {} THEN {ClientSecret} ELSE {}
           trust == Unsets(o, "kafka.auth.oauth.ca")
<1>1. in = [NoInput EXCEPT !.type = "oauth", !.tokenUrl = Value(o, "oauth_token_url"),
              !.clientId = Value(o, "oauth_client_id"), !.scopes = scopes,
              !.ca = Value(o, "oauth_ca_file"), !.defaultTrust = trust, !.secrets = secrets]
  BY DEF OAuthInputs
<1>2. /\ Value(o, "oauth_token_url") \in Values /\ Value(o, "oauth_client_id") \in Values
      /\ Value(o, "oauth_ca_file") \in Values
      /\ secrets \subseteq SecretFields /\ trust \in BOOLEAN
  BY ValueType DEF Choices, SecretFields, Unsets
<1> HIDE DEF secrets, trust
<1> QED
  BY <1>1, <1>2 DEF NoInput, Inputs, Values, KafkaTypes

LEMMA KafkaInputsTyped ==
  ASSUME NEW type \in KafkaTypes, NEW o, TypedOptions(o), NEW scopes \in Values,
         NEW passwordRequired, NEW secretRequired,
         NEW in \in KafkaInputs(type, o, scopes, passwordRequired, secretRequired)
  PROVE  in \in Inputs(KafkaTypes) /\ in.type = type
<1> DEFINE replace == Replaces(o, "kafka")
<1>1. CASE type \in PasswordTypes
  <2>1. in \in PasswordInputs(type, o, passwordRequired, replace)
    BY <1>1 DEF KafkaInputs
  <2> QED
    BY <2>1, PasswordInputsTyped
<1>2. CASE type = "mtls"
  <2>1. in \in MtlsInputs(o, replace)
    BY <1>2 DEF KafkaInputs, PasswordTypes
  <2> QED
    BY <1>2, <2>1, MtlsInputsTyped
<1>3. CASE type = "oauth"
  <2>1. in \in OAuthInputs(o, scopes, secretRequired, replace)
    BY <1>3 DEF KafkaInputs, PasswordTypes
  <2> QED
    BY <1>3, <2>1, OAuthInputsTyped
<1>4. CASE type = "none"
  <2>1. in = NoInput
    BY <1>4 DEF KafkaInputs, PasswordTypes
  <2> QED
    BY <1>4, <2>1, NothingTyped DEF NoInput
<1> QED
  BY <1>1, <1>2, <1>3, <1>4 DEF KafkaTypes, PasswordTypes

\* `add` has a Kafka input; `edit` has one when it asks for something of it.
LEMMA KafkaAddTyped ==
  ASSUME NEW o, TypedOptions(o), NEW in \in KafkaAddInputs(o)
  PROVE  in \in Inputs(KafkaTypes) /\ in.type = Either(Value(o, "auth_type"), "none")
<1> DEFINE type == Either(Value(o, "auth_type"), "none")
           scopes == IF type = "oauth" THEN Either(Value(o, "oauth_scope"), Empty) ELSE None
<1>1. in \in KafkaInputs(type, o, scopes, type \in PasswordTypes, type = "oauth")
  BY DEF KafkaAddInputs
<1>2. type \in KafkaTypes
  BY ChoiceType DEF Either, KafkaTypes
<1>3. scopes \in Values
  BY ValueType DEF Choices, Either, Values, Empty
<1> HIDE DEF scopes, type
<1>4. in \in Inputs(KafkaTypes) /\ in.type = type
  BY <1>1, <1>2, <1>3, KafkaInputsTyped
<1> QED
  BY <1>4 DEF type

LEMMA KafkaEditTyped ==
  ASSUME NEW current \in Auths(KafkaTypes), NEW o, TypedOptions(o),
         NEW in \in KafkaEditInputs(o, current)
  PROVE  /\ in = None => ~KafkaAuthRequested(o)
         /\ in # None =>
              in \in Inputs(KafkaTypes) /\ in.type = Either(Value(o, "auth_type"), current.type)
<1> DEFINE type == Either(Value(o, "auth_type"), current.type)
           scopes == IF Unsets(o, "kafka.auth.oauth.scopes") THEN Empty
                     ELSE Value(o, "oauth_scope")
<1>1. CASE ~KafkaAuthRequested(o)
  BY <1>1 DEF KafkaEditInputs
<1>2. CASE KafkaAuthRequested(o)
  <2>1. in \in KafkaInputs(type, o, scopes,
                           type \in PasswordTypes /\ current.type \notin PasswordTypes,
                           type = "oauth" /\ current.type # "oauth")
    BY <1>2 DEF KafkaEditInputs
  <2>2. type \in KafkaTypes
    BY ChoiceType DEF Either, Auths
  <2>3. scopes \in Values
    BY ValueType DEF Choices, Values, Empty
  <2> HIDE DEF scopes, type
  <2>4. in \in Inputs(KafkaTypes) /\ in.type = type
    BY <2>1, <2>2, <2>3, KafkaInputsTyped
  <2> QED
    BY <2>4, InputIsSomething DEF type
<1> QED
  BY <1>1, <1>2

\* The inputs for the Registry are the values they are made of, with the secrets
\* that are prompted for; there are none for a profile without a Registry.
LEMMA RegistryInputsTyped ==
  ASSUME NEW v \in Inputs(RegistryTypes), NEW url, NEW required, NEW replace,
         NEW in \in RegistryInputs(v, url, required, replace)
  PROVE  /\ in = None => ~RegistryRequested(v, replace)
         /\ in # None =>
              /\ in \in Inputs(RegistryTypes) /\ url # None
              /\ in.type = v.type /\ in.tlsCa = v.tlsCa /\ in.certificate = v.certificate
              /\ in.type # "mtls" => in.certificate = None
<1> DEFINE secrets == v.secrets \cup Prompted(v.type, required, replace)
<1>1. CASE in = None /\ ~RegistryRequested(v, replace)
  BY <1>1
<1>2. CASE RegistryRequested(v, replace)
  <2>1. /\ url # None
        /\ v.type # "mtls" => v.certificate = None
        /\ \/ v.type = "none" /\ in = [v EXCEPT !.scopes = None]
           \/ v.type # "none" /\ in = [v EXCEPT !.secrets = @ \cup Prompted(v.type, required, replace)]
    BY <1>2 DEF RegistryInputs
  <2>2. v.type # "none" => Prompted(v.type, required, replace) \subseteq SecretFields
    <3> SUFFICES ASSUME v.type # "none"
                 PROVE  Prompted(v.type, required, replace) \subseteq SecretFields
      OBVIOUS
    <3>1. v.type \in {"basic", "token", "mtls", "oauth"}
      BY DEF Inputs, RegistryTypes
    <3>2. v.type # "mtls" => SecretField(v.type) \in SecretFields
      BY <3>1 DEF SecretField, SecretFields
    <3> QED
      BY <3>2 DEF Prompted
  <2>3. CASE in = [v EXCEPT !.scopes = None]
    <3>1. /\ in \in Inputs(RegistryTypes)
          /\ in.type = v.type /\ in.tlsCa = v.tlsCa /\ in.certificate = v.certificate
      BY <2>3 DEF Inputs, Values
    <3> QED
      BY <2>1, <3>1, InputIsSomething
  <2>4. CASE v.type # "none" /\ in = [v EXCEPT !.secrets = secrets]
    <3>1. secrets \in SUBSET SecretFields
      BY <2>2, <2>4 DEF Inputs
    <3> HIDE DEF secrets
    <3>2. /\ in \in Inputs(RegistryTypes)
          /\ in.type = v.type /\ in.tlsCa = v.tlsCa /\ in.certificate = v.certificate
      BY <2>4, <3>1 DEF Inputs
    <3> QED
      BY <2>1, <3>2, InputIsSomething
  <2>5. in = [v EXCEPT !.scopes = None] \/ (v.type # "none" /\ in = [v EXCEPT !.secrets = secrets])
    BY <2>1 DEF Inputs
  <2> QED
    BY <2>3, <2>4, <2>5
<1> QED
  BY <1>1, <1>2 DEF RegistryInputs

LEMMA FileSecretsTyped ==
  ASSUME NEW o
  PROVE  FileSecrets(o) \in SUBSET SecretFields
BY KeySecretsTyped DEF FileSecrets, SecretFields

LEMMA RegistryAddTyped ==
  ASSUME NEW o, TypedOptions(o), NEW in \in RegistryAddInputs(o)
  PROVE  LET type == Either(Value(o, "registry_auth"), "none") IN
         /\ in = None => type = "none"
         /\ in # None =>
              /\ in \in Inputs(RegistryTypes) /\ Value(o, "registry_url") # None
              /\ in.type = type /\ in.tlsCa = Value(o, "registry_ca_file")
              /\ in.certificate = Value(o, "registry_client_certificate_file")
              /\ in.type # "mtls" => in.certificate = None
<1> DEFINE type == Either(Value(o, "registry_auth"), "none")
           username == Value(o, "registry_username")
           tlsCa == Value(o, "registry_ca_file")
           certificate == Value(o, "registry_client_certificate_file")
           tokenUrl == Value(o, "registry_oauth_token_url")
           clientId == Value(o, "registry_oauth_client_id")
           scopes == Either(Value(o, "registry_oauth_scope"), Empty)
           ca == Value(o, "registry_oauth_ca_file")
           routing == Value(o, "registry_oauth_routing")
           v == [NoInput EXCEPT !.type = type, !.username = username, !.tlsCa = tlsCa,
                   !.certificate = certificate, !.tokenUrl = tokenUrl, !.clientId = clientId,
                   !.scopes = scopes, !.ca = ca, !.routing = routing,
                   !.secrets = FileSecrets(o)]
           url == Value(o, "registry_url")
           required == TRUE
<1>1. in \in RegistryInputs(v, url, required, {})
  BY DEF RegistryAddInputs
<1>2. type \in RegistryTypes /\ scopes \in Values
  BY ChoiceType, ValueType DEF Either, RegistryTypes, Choices, Values, Empty
<1>3. /\ username \in Values /\ tlsCa \in Values /\ certificate \in Values
      /\ tokenUrl \in Values /\ clientId \in Values /\ ca \in Values /\ routing \in Values
  BY ValueType DEF Choices
<1>0. v = [NoInput EXCEPT !.type = type, !.username = username, !.tlsCa = tlsCa,
             !.certificate = certificate, !.tokenUrl = tokenUrl, !.clientId = clientId,
             !.scopes = scopes, !.ca = ca, !.routing = routing, !.secrets = FileSecrets(o)]
  OBVIOUS
<1> HIDE DEF type, username, tlsCa, certificate, tokenUrl, clientId, scopes, ca, routing, url,
             required, v
<1>4. v \in Inputs(RegistryTypes) /\ v.type = type /\ v.tlsCa = tlsCa /\ v.certificate = certificate
  BY <1>0, <1>2, <1>3, FileSecretsTyped DEF NoInput, Inputs, Values
<1>5. /\ in = None => ~RegistryRequested(v, {})
      /\ in # None =>
           /\ in \in Inputs(RegistryTypes) /\ url # None
           /\ in.type = v.type /\ in.tlsCa = v.tlsCa /\ in.certificate = v.certificate
           /\ in.type # "mtls" => in.certificate = None
  BY <1>1, <1>4, RegistryInputsTyped
<1>6. in = None => type = "none"
  BY <1>4, <1>5 DEF RegistryRequested
<1> QED
  BY <1>4, <1>5, <1>6 DEF type, tlsCa, certificate, url

LEMMA AuthOfTyped ==
  ASSUME NEW registry \in Registries \cup {None}
  PROVE  AuthOf(registry) \in Auths(RegistryTypes)
BY NothingTyped DEF AuthOf, Registries

LEMMA RegistryEditValuesTyped ==
  ASSUME NEW registry \in Registries \cup {None}, NEW o, TypedOptions(o), NEW type \in RegistryTypes
  PROVE  LET v == RegistryEditValues(o, type, registry)
             stored == IF type = AuthOf(registry).type THEN AuthOf(registry) ELSE NoAuth IN
         /\ v \in Inputs(RegistryTypes) /\ v.type = type
         /\ v.tlsCa = Replaced(Value(o, "registry_ca_file"), Unsets(o, "registry.tls.ca"),
                               IF registry = None THEN None ELSE registry.ca)
         /\ v.certificate = Either(Value(o, "registry_client_certificate_file"), stored.certificate)
<1> DEFINE stored == IF type = AuthOf(registry).type THEN AuthOf(registry) ELSE NoAuth
           username == Or(Value(o, "registry_username"), stored.username)
           tlsCa == Replaced(Value(o, "registry_ca_file"), Unsets(o, "registry.tls.ca"),
                             IF registry = None THEN None ELSE registry.ca)
           certificate == Either(Value(o, "registry_client_certificate_file"), stored.certificate)
           tokenUrl == Or(Value(o, "registry_oauth_token_url"), stored.tokenUrl)
           clientId == Or(Value(o, "registry_oauth_client_id"), stored.clientId)
           scopes == IF Unsets(o, "registry.auth.oauth.scopes") THEN Empty
                     ELSE Either(Value(o, "registry_oauth_scope"), Either(stored.scopes, Empty))
           ca == Replaced(Value(o, "registry_oauth_ca_file"),
                          Unsets(o, "registry.auth.oauth.ca"), stored.ca)
           routing == IF Unsets(o, "registry.auth.oauth.routing") THEN None
                      ELSE Or(Value(o, "registry_oauth_routing"), stored.routing)
           v == RegistryEditValues(o, type, registry)
<1>1. v = [NoInput EXCEPT !.type = type, !.username = username, !.tlsCa = tlsCa,
             !.certificate = certificate, !.tokenUrl = tokenUrl, !.clientId = clientId,
             !.scopes = scopes, !.ca = ca, !.routing = routing, !.secrets = FileSecrets(o)]
  BY DEF RegistryEditValues
<1>2. stored \in Auths(RegistryTypes)
  BY AuthOfTyped, NothingTyped
<1>3. /\ Value(o, "registry_username") \in Values /\ Value(o, "registry_ca_file") \in Values
      /\ Value(o, "registry_client_certificate_file") \in Values
      /\ Value(o, "registry_oauth_token_url") \in Values
      /\ Value(o, "registry_oauth_client_id") \in Values
      /\ Value(o, "registry_oauth_scope") \in Values
      /\ Value(o, "registry_oauth_ca_file") \in Values
      /\ Value(o, "registry_oauth_routing") \in Values
  BY ValueType DEF Choices
<1>4. None \in Values /\ Empty \in Values
  BY DEF Values, Empty
<1> HIDE DEF stored
<1>5. /\ username \in Values /\ certificate \in Values /\ tokenUrl \in Values
      /\ clientId \in Values /\ scopes \in Values /\ ca \in Values /\ routing \in Values
  BY <1>2, <1>3, <1>4 DEF Auths, Or, Either, Replaced
<1>6. tlsCa \in Values
  BY <1>3, <1>4 DEF Registries, Either, Replaced
<1> HIDE DEF username, tlsCa, certificate, tokenUrl, clientId, scopes, ca, routing, v
<1>7. v \in Inputs(RegistryTypes) /\ v.type = type /\ v.tlsCa = tlsCa /\ v.certificate = certificate
  BY <1>1, <1>5, <1>6, FileSecretsTyped DEF NoInput, Inputs, Values
<1> QED
  BY <1>7 DEF v, tlsCa, certificate, stored

\* `edit` has an input for the Registry when it asks for something of it, unless
\* that is nothing for a Registry without authentication; the type is the one the
\* rules are checked with.
LEMMA RegistryEditTyped ==
  ASSUME NEW registry \in Registries \cup {None}, NEW o, TypedOptions(o),
         NEW in \in RegistryEditInputs(o, registry)
  PROVE  LET current == AuthOf(registry)
             type == Either(Value(o, "registry_auth"), current.type)
             url == Either(Value(o, "registry_url"), IF registry = None THEN None ELSE registry.url)
             v == RegistryEditValues(o, type, registry) IN
         /\ in = None =>
              /\ type = current.type
              /\ RegistryAuthRequested(o) => v.tlsCa = None /\ v.certificate = None
         /\ in # None =>
              /\ in \in Inputs(RegistryTypes) /\ RegistryAuthRequested(o)
              /\ in.type = type /\ in.tlsCa = v.tlsCa /\ in.certificate = v.certificate
              /\ type # "mtls" => in.certificate = None
              /\ url = None => type = "none"
<1> DEFINE current == AuthOf(registry)
           type == Either(Value(o, "registry_auth"), current.type)
           url == Either(Value(o, "registry_url"), IF registry = None THEN None ELSE registry.url)
           v == RegistryEditValues(o, type, registry)
           required == type # current.type
           replace == Replaces(o, "registry")
           inputs == RegistryInputs(v, url, required, replace)
<1>1. type \in RegistryTypes
  BY ChoiceType, AuthOfTyped DEF Either, Auths
<1>2. v \in Inputs(RegistryTypes) /\ v.type = type
  BY <1>1, RegistryEditValuesTyped
<1>3. CASE ~RegistryAuthRequested(o)
  <2>1. in = None
    BY <1>3 DEF RegistryEditInputs
  <2>2. ~Given(o, "registry_auth")
    BY <1>3 DEF RegistryAuthRequested, RegistryOptions, AnyGiven, Given
  <2> QED
    BY <1>3, <2>1, <2>2 DEF Value, Either
<1>4. CASE RegistryAuthRequested(o)
  <2>1. \/ inputs = {None} /\ Value(o, "registry_auth") = "none" /\ in = NoInput
        \/ ~(inputs = {None} /\ Value(o, "registry_auth") = "none") /\ in \in inputs
    BY <1>4 DEF RegistryEditInputs
  <2>2. ASSUME NEW i \in inputs
        PROVE  /\ inputs = {i}
               /\ i = None => ~RegistryRequested(v, replace)
               /\ i # None =>
                    /\ i \in Inputs(RegistryTypes) /\ url # None
                    /\ i.type = v.type /\ i.tlsCa = v.tlsCa /\ i.certificate = v.certificate
                    /\ i.type # "mtls" => i.certificate = None
    <3> HIDE DEF v, url, required, replace
    <3>1. i \in RegistryInputs(v, url, required, replace)
      BY DEF inputs
    <3>2. RegistryInputs(v, url, required, replace) = {i}
      BY <3>1 DEF RegistryInputs
    <3> HIDE DEF inputs
    <3> QED
      BY <1>2, <3>1, <3>2, RegistryInputsTyped DEF inputs
  <2> HIDE DEF v, url, required, replace, inputs
  <2>3. ~RegistryRequested(v, replace) => type = "none" /\ v.tlsCa = None /\ v.certificate = None
    BY <1>2 DEF RegistryRequested
  <2>4. CASE inputs = {None} /\ Value(o, "registry_auth") = "none" /\ in = NoInput
    <3>1. type = "none" /\ v.tlsCa = None /\ v.certificate = None
      BY <2>2, <2>3, <2>4
    <3>2. in # None /\ in \in Inputs(RegistryTypes)
      BY <2>4, NothingTyped, InputIsSomething
    <3> QED
      BY <1>4, <2>4, <3>1, <3>2 DEF NoInput, v, url
  <2>5. CASE ~(inputs = {None} /\ Value(o, "registry_auth") = "none") /\ in \in inputs
    <3>1. CASE in = None
      <4>1. type = "none" /\ v.tlsCa = None /\ v.certificate = None
        BY <2>2, <2>3, <2>5, <3>1
      <4>2. Value(o, "registry_auth") # "none"
        BY <2>2, <2>5, <3>1
      <4>3. type = current.type
        BY <4>1, <4>2 DEF Either
      <4> QED
        BY <3>1, <4>1, <4>3 DEF v
    <3>2. CASE in # None
      BY <1>2, <1>4, <2>2, <2>5, <3>2 DEF v, url
    <3> QED
      BY <3>1, <3>2
  <2> QED
    BY <2>1, <2>4, <2>5
<1> QED
  BY <1>3, <1>4

\* A plan for the references `refs` of a service: what it keeps is of them, and
\* it deletes the others, but for those that it stores anew.
PlanOf(p, refs, types) ==
  /\ p.auth \in Auths(types) /\ p.retained \subseteq refs /\ p.staged \subseteq SecretFields
  /\ p.retired = {r \in refs : r \notin p.retained /\ r.field \notin p.staged}

LEMMA PlanTyped ==
  ASSUME NEW types, NEW auth \in Auths(types), NEW refs, NEW retained \in SUBSET refs,
         NEW staged \in SUBSET SecretFields, NEW p, p = Plan(auth, refs, retained, staged)
  PROVE  PlanOf(p, refs, types) /\ p.auth = auth
BY DEF PlanOf, Plan

LEMMA OneSecretTyped ==
  ASSUME NEW types, NEW auth \in Auths(types), NEW refs, NEW field \in SecretFields, NEW given,
         NEW p \in OneSecret(auth, refs, field, given)
  PROVE  PlanOf(p, refs, types) /\ p.auth = auth
<1>1. p = Plan(auth, refs, {}, {field}) \/ p = Plan(auth, refs, Of(refs, field), {})
  BY DEF OneSecret
<1>2. Of(refs, field) \subseteq refs
  BY DEF Of
<1> QED
  BY <1>1, <1>2, PlanTyped

\* A Kafka plan is for the type that was asked for.
LEMMA KafkaPlansTyped ==
  ASSUME NEW current \in Auths(KafkaTypes), NEW in \in Inputs(KafkaTypes),
         NEW p \in KafkaPlans(current, in)
  PROVE  PlanOf(p, current.refs, KafkaTypes) /\ p.auth.type = in.type
<1>0. in.type \in {"none", "mtls", "oauth"} \cup PasswordTypes
  BY DEF Inputs, KafkaTypes, PasswordTypes
<1>1. CASE in.type = "none"
  <2>1. p = Plan(NoAuth, current.refs, {}, {})
    BY <1>1 DEF KafkaPlans, PasswordTypes
  <2>2. PlanOf(p, current.refs, KafkaTypes) /\ p.auth = NoAuth
    BY <2>1, NothingTyped, PlanTyped
  <2> QED
    BY <1>1, <2>2 DEF NoAuth
<1>2. CASE in.type \in PasswordTypes
  <2> DEFINE username == Either(in.username, IF current.type \in PasswordTypes
                                             THEN current.username ELSE None)
             auth == [NoAuth EXCEPT !.type = in.type, !.username = username]
             given == Password \in in.secrets
  <2>1. p \in KafkaPasswordPlans(current, in)
    BY <1>2 DEF KafkaPlans, PasswordTypes
  <2>2. p \in OneSecret(auth, current.refs, Password, given)
    BY <2>1 DEF KafkaPasswordPlans
  <2>3. username \in Values
    BY DEF Either, Inputs, Auths, Values
  <2> HIDE DEF username
  <2>4. auth \in Auths(KafkaTypes) /\ auth.type = in.type
    BY <2>3 DEF NoAuth, Auths, Inputs, Values
  <2> HIDE DEF auth, given
  <2>5. PlanOf(p, current.refs, KafkaTypes) /\ p.auth = auth
    BY <2>2, <2>4, OneSecretTyped DEF SecretFields
  <2> QED
    BY <2>4, <2>5
<1>3. CASE in.type = "mtls"
  <2>1. p \in KafkaMtlsPlans(current, in)
    BY <1>3 DEF KafkaPlans, PasswordTypes
  <2>2. PICK certificate \in Values, retained \in {{}, current.refs}, staged \in {{}, in.secrets} :
          p = Plan([NoAuth EXCEPT !.type = "mtls", !.certificate = certificate],
                   current.refs, retained, staged)
    BY <2>1 DEF KafkaMtlsPlans, Inputs, Auths
  <2> DEFINE auth == [NoAuth EXCEPT !.type = "mtls", !.certificate = certificate]
  <2>3. auth \in Auths(KafkaTypes) /\ auth.type = "mtls"
    BY DEF NoAuth, Auths, Values, KafkaTypes
  <2>4. retained \in SUBSET current.refs /\ staged \in SUBSET SecretFields
    BY DEF Inputs
  <2>5. p = Plan(auth, current.refs, retained, staged)
    BY <2>2
  <2> HIDE DEF auth
  <2>6. PlanOf(p, current.refs, KafkaTypes) /\ p.auth = auth
    BY <2>3, <2>4, <2>5, PlanTyped
  <2> QED
    BY <1>3, <2>3, <2>6
<1>4. CASE in.type = "oauth"
  <2> DEFINE stored == IF current.type = "oauth" THEN current ELSE NoAuth
             tokenUrl == Or(in.tokenUrl, stored.tokenUrl)
             clientId == Or(in.clientId, stored.clientId)
             scopes == Either(Either(in.scopes, stored.scopes), Empty)
             ca == IF in.defaultTrust THEN in.ca ELSE Either(in.ca, stored.ca)
             auth == [NoAuth EXCEPT !.type = "oauth", !.tokenUrl = tokenUrl,
                        !.clientId = clientId, !.scopes = scopes, !.ca = ca]
             given == ClientSecret \in in.secrets
  <2>1. p \in KafkaOAuthPlans(current, in)
    BY <1>4 DEF KafkaPlans, PasswordTypes
  <2>2. p \in OneSecret(auth, current.refs, ClientSecret, given)
    BY <2>1 DEF KafkaOAuthPlans
  <2>3. stored \in Auths(KafkaTypes)
    BY NothingTyped
  <2> HIDE DEF stored
  <2>4. tokenUrl \in Values /\ clientId \in Values /\ scopes \in Values /\ ca \in Values
    BY <2>3 DEF Auths, Inputs, Or, Either, Values, Empty
  <2> HIDE DEF tokenUrl, clientId, scopes, ca
  <2>5. auth \in Auths(KafkaTypes) /\ auth.type = "oauth"
    BY <2>4 DEF NoAuth, Auths, Values, KafkaTypes
  <2> HIDE DEF auth, given
  <2>6. PlanOf(p, current.refs, KafkaTypes) /\ p.auth = auth
    BY <2>2, <2>5, OneSecretTyped DEF SecretFields
  <2> QED
    BY <1>4, <2>5, <2>6
<1> QED
  BY <1>0, <1>1, <1>2, <1>3, <1>4

\* A Registry plan is for the type and the certificate of its input.
LEMMA RegistryPlansTyped ==
  ASSUME NEW registry \in Registries \cup {None}, NEW in \in Inputs(RegistryTypes),
         in.type # "mtls" => in.certificate = None,
         NEW p \in RegistryPlans(registry, in)
  PROVE  /\ PlanOf(p, AuthOf(registry).refs, RegistryTypes)
         /\ p.auth.type = in.type /\ p.auth.certificate = in.certificate
         /\ in.type = "none" => p.staged = {}
<1> DEFINE refs == AuthOf(registry).refs
           auth == [t \in DOMAIN NoAuth |-> IF t \in Texts \cup {"type"} THEN in[t] ELSE {}]
           simple == [auth EXCEPT !.scopes = None]
           given == in.secrets # {}
<1>0. in.type \in {"none", "basic", "token", "mtls", "oauth"}
  BY DEF Inputs, RegistryTypes
<1>1. /\ auth \in Auths(RegistryTypes)
      /\ auth.type = in.type /\ auth.certificate = in.certificate
  <2>1. DOMAIN NoAuth = {"type", "username", "certificate", "tokenUrl", "clientId", "scopes",
                         "ca", "routing", "refs"}
    BY DEF NoAuth
  <2>2. \A t \in Texts : in[t] \in Values
    BY DEF Inputs, Texts
  <2>3. in.type \in RegistryTypes
    BY DEF Inputs
  <2> QED
    BY <2>1, <2>2, <2>3 DEF Auths, Texts
<1> HIDE DEF auth
<1>3. /\ simple \in Auths(RegistryTypes)
      /\ simple.type = in.type /\ simple.certificate = in.certificate
  BY <1>1 DEF Auths, Values
<1>4. \/ in.type = "none" /\ p = Plan(NoAuth, refs, {}, {})
      \/ in.type \in {"basic", "token"} /\ p \in OneSecret(simple, refs, SecretField(in.type), given)
      \/ in.type = "mtls" /\ p \in RegistryMtlsPlans(simple, refs, in)
      \/ in.type = "oauth" /\ p \in OneSecret(auth, refs, ClientSecret, given)
  BY <1>0 DEF RegistryPlans, auth
<1> HIDE DEF simple, given, refs
<1>5. CASE in.type = "none" /\ p = Plan(NoAuth, refs, {}, {})
  <2>1. PlanOf(p, refs, RegistryTypes) /\ p.auth = NoAuth /\ p.staged = {}
    BY <1>5, NothingTyped, PlanTyped DEF Plan
  <2> QED
    BY <1>5, <2>1 DEF NoAuth, refs
<1>6. CASE /\ in.type \in {"basic", "token"}
           /\ p \in OneSecret(simple, refs, SecretField(in.type), given)
  <2>1. SecretField(in.type) \in SecretFields
    BY <1>6 DEF SecretField, SecretFields
  <2>2. PlanOf(p, refs, RegistryTypes) /\ p.auth = simple
    BY <1>3, <1>6, <2>1, OneSecretTyped
  <2> QED
    BY <1>3, <1>6, <2>2 DEF refs
<1>7. CASE in.type = "mtls" /\ p \in RegistryMtlsPlans(simple, refs, in)
  <2> DEFINE retained == IF PrivateKey \in in.secrets THEN {}
                         ELSE Of(refs, PrivateKey) \cup Of(refs, KeyPassword)
  <2>1. p = Plan(simple, refs, retained, in.secrets)
    BY <1>7 DEF RegistryMtlsPlans
  <2>2. retained \in SUBSET refs /\ in.secrets \in SUBSET SecretFields
    BY DEF Of, Inputs
  <2> HIDE DEF retained
  <2>3. PlanOf(p, refs, RegistryTypes) /\ p.auth = simple
    BY <1>3, <2>1, <2>2, PlanTyped
  <2> QED
    BY <1>3, <1>7, <2>3 DEF refs
<1>8. CASE in.type = "oauth" /\ p \in OneSecret(auth, refs, ClientSecret, given)
  <2>1. PlanOf(p, refs, RegistryTypes) /\ p.auth = auth
    BY <1>1, <1>8, OneSecretTyped DEF SecretFields
  <2> QED
    BY <1>1, <1>8, <2>1 DEF refs
<1> QED
  BY <1>4, <1>5, <1>6, <1>7, <1>8

\* The `auth` object of a plan holds what it retains and what it stores.
LEMMA AuthDocumentOf ==
  ASSUME NEW plan, plan.auth \in Auths(KafkaTypes) \/ plan.auth \in Auths(RegistryTypes),
         NEW service, NEW made
  PROVE  LET a == AuthDocument(plan, service, made) IN
         /\ a.type = plan.auth.type /\ a.certificate = plan.auth.certificate
         /\ a.refs = {r \in plan.retained : r.field \notin plan.staged}
                       \cup {Reference(service, field, made) : field \in plan.staged}
<1> DEFINE new == {r \in plan.retained : r.field \notin plan.staged}
                    \cup {Reference(service, field, made) : field \in plan.staged}
           a == AuthDocument(plan, service, made)
<1>1. a = [plan.auth EXCEPT !.refs = new]
  BY DEF AuthDocument
<1> HIDE DEF new, a
<1>2. a.refs = new /\ a.type = plan.auth.type /\ a.certificate = plan.auth.certificate
  BY <1>1 DEF Auths
<1> QED
  BY <1>2 DEF new, a

LEMMA AuthDocumentTyped ==
  ASSUME NEW types, NEW refs \in SUBSET References, NEW plan, PlanOf(plan, refs, types),
         NEW service \in {"kafka", "registry"}, NEW made \in Nat,
         NEW a, a = AuthDocument(plan, service, made)
  PROVE  /\ a \in Auths(types)
         /\ a.type = plan.auth.type /\ a.certificate = plan.auth.certificate
         /\ a.refs = {r \in plan.retained : r.field \notin plan.staged}
                       \cup {Reference(service, field, made) : field \in plan.staged}
<1> DEFINE new == {r \in plan.retained : r.field \notin plan.staged}
                    \cup {Reference(service, field, made) : field \in plan.staged}
<1>1. a = [plan.auth EXCEPT !.refs = new]
  BY DEF AuthDocument
<1>2. new \in SUBSET References
  BY DEF PlanOf, Reference, References
<1>3. plan.auth \in Auths(types)
  BY DEF PlanOf
<1> HIDE DEF new
<1>4. /\ a \in Auths(types) /\ a.refs = new
      /\ a.type = plan.auth.type /\ a.certificate = plan.auth.certificate
  BY <1>1, <1>2, <1>3 DEF Auths
<1> QED
  BY <1>4 DEF new

\* The plans for the inputs there are.
PlansOf(in, plans, kafkaRefs, registryRefs) ==
  /\ kafkaRefs \in SUBSET References /\ registryRefs \in SUBSET References
  /\ in.kafka # None => PlanOf(plans.kafka, kafkaRefs, KafkaTypes)
  /\ in.registry # None => /\ PlanOf(plans.registry, registryRefs, RegistryTypes)
                           /\ in.registry \in Inputs(RegistryTypes)

\* The document `d` is `e` with the authentication of the inputs.
Authenticated(d, e, in, plans, made) ==
  /\ d \in Documents /\ d.description = e.description
  /\ d.kafka.transport = e.kafka.transport /\ d.kafka.ca = e.kafka.ca
  /\ d.kafka.auth = IF in.kafka = None THEN e.kafka.auth
                    ELSE AuthDocument(plans.kafka, "kafka", made)
  /\ d.registry = None <=> e.registry = None
  /\ d.registry # None =>
       /\ d.registry.provider = e.registry.provider /\ d.registry.url = e.registry.url
       /\ IF in.registry = None THEN d.registry = e.registry
          ELSE /\ d.registry.ca = in.registry.tlsCa
               /\ d.registry.auth = AuthDocument(plans.registry, "registry", made)

LEMMA WithAuthTyped ==
  ASSUME NEW e \in Documents, NEW in, NEW plans, NEW made \in Nat, NEW kafkaRefs, NEW registryRefs,
         PlansOf(in, plans, kafkaRefs, registryRefs), NEW d, d = WithAuth(e, in, plans, made)
  PROVE  Authenticated(d, e, in, plans, made)
<1> DEFINE auth == IF in.kafka = None THEN e.kafka.auth
                   ELSE AuthDocument(plans.kafka, "kafka", made)
           ra == AuthDocument(plans.registry, "registry", made)
           registry == IF in.registry = None \/ e.registry = None THEN e.registry
                       ELSE [e.registry EXCEPT !.ca = in.registry.tlsCa, !.auth = ra]
<1>1. e.kafka \in KafkaConnections /\ e.registry \in Registries \cup {None}
  BY DEF Documents
<1>2. auth \in Auths(KafkaTypes)
  BY <1>1, AuthDocumentTyped DEF PlansOf, KafkaConnections
<1>3. in.registry # None => ra \in Auths(RegistryTypes) /\ in.registry.tlsCa \in Values
  BY AuthDocumentTyped DEF PlansOf, Inputs
<1>4. d = [e EXCEPT !.kafka.auth = auth, !.registry = registry]
  BY <1>1 DEF WithAuth, Documents, KafkaConnections
<1> HIDE DEF ra
<1>5. /\ registry \in Registries \cup {None}
      /\ registry = None <=> e.registry = None
      /\ registry # None =>
           /\ registry.provider = e.registry.provider /\ registry.url = e.registry.url
           /\ IF in.registry = None THEN registry = e.registry
              ELSE registry.ca = in.registry.tlsCa /\ registry.auth = ra
  <2>1. CASE in.registry = None \/ e.registry = None
    BY <1>1, <2>1
  <2>2. CASE ~(in.registry = None \/ e.registry = None)
    <3>1. registry = [e.registry EXCEPT !.ca = in.registry.tlsCa, !.auth = ra]
      BY <2>2
    <3>2. e.registry \in Registries /\ ra \in Auths(RegistryTypes) /\ in.registry.tlsCa \in Values
      BY <1>1, <1>3, <2>2
    <3> HIDE DEF registry
    <3>3. /\ registry \in Registries /\ registry.ca = in.registry.tlsCa /\ registry.auth = ra
          /\ registry.provider = e.registry.provider /\ registry.url = e.registry.url
      BY <3>1, <3>2 DEF Registries
    <3> QED
      BY <2>2, <3>3, NoneAssumption
  <2> QED
    BY <2>1, <2>2
<1> HIDE DEF auth, registry
<1>6. d \in Documents /\ d.registry = registry /\ d.description = e.description
  BY <1>1, <1>2, <1>4, <1>5 DEF Documents, KafkaConnections
<1>7. d.kafka.transport = e.kafka.transport /\ d.kafka.ca = e.kafka.ca /\ d.kafka.auth = auth
  BY <1>1, <1>2, <1>4 DEF Documents, KafkaConnections
<1> QED
  BY <1>5, <1>6, <1>7 DEF Authenticated, auth, ra

-----------------------------------------------------------------------------
(* What an edit makes of a document *)

\* The document `e`, the inputs and the plans that a result is made of.
MadeOf(result, d, in, made, e, k, r) ==
  LET plans == [kafka |-> k, registry |-> r] IN
  result = [document |-> WithAuth(e, in, plans, made),
            staged |-> Staged(plans, made), retired |-> Retired(d, plans)]

LEMMA ResultParts ==
  ASSUME NEW d, NEW o, NEW in \in EditInputs(d, o), NEW made,
         NEW result \in EditResults(d, o, in, made)
  PROVE  /\ ~Contradicts(o) /\ ~RequestConflicts(o, in.kafka, in.registry)
         /\ in.kafka \in KafkaEditInputs(o, d.kafka.auth)
         /\ in.registry \in RegistryEditInputs(o, d.registry)
         /\ \E e \in Edited(d, o) :
              \E k \in KafkaEditPlans(d.kafka.auth, in.kafka, e.kafka.transport),
                 r \in RegistryEditPlans(d, e, in.registry) :
                MadeOf(result, d, in, made, e, k, r)
<1>1. ~Contradicts(o)
  BY DEF EditInputs
<1>2. /\ in.kafka \in KafkaEditInputs(o, d.kafka.auth)
      /\ in.registry \in RegistryEditInputs(o, d.registry)
  BY <1>1 DEF EditInputs
<1>3. ~RequestConflicts(o, in.kafka, in.registry)
  BY DEF EditResults
<1>4. \E e \in Edited(d, o) :
        \E k \in KafkaEditPlans(d.kafka.auth, in.kafka, e.kafka.transport),
           r \in RegistryEditPlans(d, e, in.registry) :
          MadeOf(result, d, in, made, e, k, r)
  <2> DEFINE results(e) ==
               {[document |-> WithAuth(e, in, [kafka |-> k, registry |-> r], made),
                 staged |-> Staged([kafka |-> k, registry |-> r], made),
                 retired |-> Retired(d, [kafka |-> k, registry |-> r])] :
                  k \in KafkaEditPlans(d.kafka.auth, in.kafka, e.kafka.transport),
                  r \in RegistryEditPlans(d, e, in.registry)}
  <2>1. EditResults(d, o, in, made) = UNION {results(e) : e \in Edited(d, o)}
    BY <1>3 DEF EditResults
  <2>2. \A e : result \in results(e) =>
               \E k \in KafkaEditPlans(d.kafka.auth, in.kafka, e.kafka.transport),
                  r \in RegistryEditPlans(d, e, in.registry) :
                 MadeOf(result, d, in, made, e, k, r)
    BY DEF MadeOf
  <2> HIDE DEF results
  <2> QED
    BY <2>1, <2>2
<1> QED
  BY <1>1, <1>2, <1>3, <1>4

\* The Kafka plan of an edit, and the one of the Registry when that has inputs.
LEMMA EditPlansTyped ==
  ASSUME NEW d \in Documents, NEW o, TypedOptions(o), ~Contradicts(o), NEW e \in Edited(d, o),
         NEW ki \in KafkaEditInputs(o, d.kafka.auth), NEW ri \in RegistryEditInputs(o, d.registry),
         NEW k \in KafkaEditPlans(d.kafka.auth, ki, e.kafka.transport),
         NEW r \in RegistryEditPlans(d, e, ri)
  PROVE  /\ ki = None => k = NoPlan
         /\ ki # None => PlanOf(k, d.kafka.auth.refs, KafkaTypes) /\ k.auth.type = ki.type
         /\ ri # None => /\ ri \in Inputs(RegistryTypes)
                         /\ PlanOf(r, AuthOf(d.registry).refs, RegistryTypes)
                         /\ r.auth.type = ri.type /\ r.auth.certificate = ri.certificate
                         /\ ri.type = "none" => r.staged = {}
<1>1. d.kafka.auth \in Auths(KafkaTypes) /\ d.registry \in Registries \cup {None}
  BY DEF Documents, KafkaConnections
<1>2. ki = None => k = NoPlan
  BY DEF KafkaEditPlans
<1>3. ki # None => PlanOf(k, d.kafka.auth.refs, KafkaTypes) /\ k.auth.type = ki.type
  <2> SUFFICES ASSUME ki # None
               PROVE  PlanOf(k, d.kafka.auth.refs, KafkaTypes) /\ k.auth.type = ki.type
    OBVIOUS
  <2>1. k \in KafkaPlans(d.kafka.auth, ki)
    BY DEF KafkaEditPlans
  <2>2. ki \in Inputs(KafkaTypes)
    BY <1>1, KafkaEditTyped
  <2> QED
    BY <1>1, <2>1, <2>2, KafkaPlansTyped
<1>4. ASSUME ri # None
      PROVE  /\ ri \in Inputs(RegistryTypes)
             /\ PlanOf(r, AuthOf(d.registry).refs, RegistryTypes)
             /\ r.auth.type = ri.type /\ r.auth.certificate = ri.certificate
             /\ ri.type = "none" => r.staged = {}
  <2>1. r \in RegistryPlans(d.registry, ri)
    BY <1>4 DEF RegistryEditPlans
  <2>2. ri \in Inputs(RegistryTypes) /\ (ri.type # "mtls" => ri.certificate = None)
    BY <1>1, <1>4, RegistryEditTyped
  <2> QED
    BY <1>1, <2>1, <2>2, RegistryPlansTyped
<1> QED
  BY <1>2, <1>3, <1>4

\* All that the proofs below need of a result.
EditOf(result, d, o, in, made, e, k, p) ==
  LET new == result.document
      plans == [kafka |-> k, registry |-> p] IN
  /\ e \in Documents
  /\ e.kafka \in TransportEdits(d.kafka, o) /\ e.registry \in RegistryEdits(d.registry, o)
  /\ k \in KafkaEditPlans(d.kafka.auth, in.kafka, e.kafka.transport)
  /\ p \in RegistryEditPlans(d, e, in.registry)
  /\ in.kafka = None => k = NoPlan
  /\ in.kafka # None => PlanOf(k, d.kafka.auth.refs, KafkaTypes) /\ k.auth.type = in.kafka.type
  /\ in.registry # None =>
       /\ PlanOf(p, AuthOf(d.registry).refs, RegistryTypes)
       /\ p.auth.type = in.registry.type /\ p.auth.certificate = in.registry.certificate
       /\ in.registry.type = "none" => p.staged = {}
  /\ new \in Documents /\ new.description = DescriptionEdit(d, o)
  /\ new.kafka.transport = e.kafka.transport /\ new.kafka.ca = e.kafka.ca
  /\ new.kafka.auth = IF in.kafka = None THEN e.kafka.auth ELSE AuthDocument(k, "kafka", made)
  /\ new.registry = None <=> e.registry = None
  /\ new.registry # None =>
       /\ new.registry.provider = e.registry.provider /\ new.registry.url = e.registry.url
       /\ IF in.registry = None THEN new.registry = e.registry
          ELSE /\ new.registry.ca = in.registry.tlsCa
               /\ new.registry.auth = AuthDocument(p, "registry", made)
  /\ result.staged = Staged(plans, made) /\ result.retired = Retired(d, plans)

LEMMA ResultIsEdit ==
  ASSUME NEW d \in Documents, NEW o, TypedOptions(o), NEW in \in EditInputs(d, o), NEW made \in Nat,
         NEW result \in EditResults(d, o, in, made)
  PROVE  \E e, k, p : EditOf(result, d, o, in, made, e, k, p)
<1> DEFINE new == result.document
           ki == in.kafka
           ri == in.registry
           old == d.registry
<1>1. /\ ~Contradicts(o)
      /\ ki \in KafkaEditInputs(o, d.kafka.auth) /\ ri \in RegistryEditInputs(o, old)
  BY ResultParts
<1>2. PICK e \in Edited(d, o) :
        \E k \in KafkaEditPlans(d.kafka.auth, ki, e.kafka.transport),
           p \in RegistryEditPlans(d, e, ri) :
          MadeOf(result, d, in, made, e, k, p)
  BY ResultParts
<1>3. PICK k \in KafkaEditPlans(d.kafka.auth, ki, e.kafka.transport),
           p \in RegistryEditPlans(d, e, ri) :
        MadeOf(result, d, in, made, e, k, p)
  BY <1>2
<1> DEFINE plans == [kafka |-> k, registry |-> p]
           kafkaRefs == d.kafka.auth.refs
           registryRefs == AuthOf(old).refs
<1>4. /\ ki = None => k = NoPlan
      /\ ki # None => PlanOf(k, kafkaRefs, KafkaTypes) /\ k.auth.type = ki.type
      /\ ri # None => /\ ri \in Inputs(RegistryTypes)
                      /\ PlanOf(p, registryRefs, RegistryTypes)
                      /\ p.auth.type = ri.type /\ p.auth.certificate = ri.certificate
                      /\ ri.type = "none" => p.staged = {}
  BY <1>1, EditPlansTyped
<1>5. /\ e \in Documents /\ e.description = DescriptionEdit(d, o)
      /\ e.kafka \in TransportEdits(d.kafka, o) /\ e.registry \in RegistryEdits(old, o)
  BY EditedTyped
<1>6. /\ plans.kafka = k /\ plans.registry = p /\ new = WithAuth(e, in, plans, made)
      /\ result.staged = Staged(plans, made) /\ result.retired = Retired(d, plans)
  BY <1>3 DEF MadeOf
<1>7. kafkaRefs \in SUBSET References /\ registryRefs \in SUBSET References
  <2>1. d.kafka \in KafkaConnections /\ old \in Registries \cup {None}
    BY DEF Documents
  <2> QED
    BY <2>1, AuthOfTyped DEF KafkaConnections, Auths
<1> HIDE DEF plans, new, kafkaRefs, registryRefs
<1>8. /\ new \in Documents /\ new.description = e.description
      /\ new.kafka.transport = e.kafka.transport /\ new.kafka.ca = e.kafka.ca
      /\ new.kafka.auth = IF ki = None THEN e.kafka.auth ELSE AuthDocument(k, "kafka", made)
      /\ new.registry = None <=> e.registry = None
      /\ new.registry # None =>
           /\ new.registry.provider = e.registry.provider /\ new.registry.url = e.registry.url
           /\ IF ri = None THEN new.registry = e.registry
              ELSE /\ new.registry.ca = ri.tlsCa
                   /\ new.registry.auth = AuthDocument(p, "registry", made)
  <2>1. PlansOf(in, plans, kafkaRefs, registryRefs)
    BY <1>4, <1>6, <1>7 DEF PlansOf
  <2>2. Authenticated(new, e, in, plans, made)
    BY <1>5, <1>6, <2>1, WithAuthTyped
  <2> QED
    BY <1>6, <2>2 DEF Authenticated
<1>9. EditOf(result, d, o, in, made, e, k, p)
  BY <1>3, <1>4, <1>5, <1>6, <1>8 DEF EditOf, new, plans, kafkaRefs, registryRefs
<1> QED
  BY <1>9

\* The `auth` object of a plan refers to what there was, without what the plan
\* deletes or supersedes, and to what it stores.
LEMMA ServiceExact ==
  ASSUME NEW types \in {KafkaTypes, RegistryTypes}, NEW refs, NEW plan, PlanOf(plan, refs, types),
         NEW service, NEW made
  PROVE  AuthDocument(plan, service, made).refs =
           (refs \ (plan.retired \cup {r \in refs : r.field \in plan.staged}))
             \cup {Reference(service, field, made) : field \in plan.staged}
<1> DEFINE new == {Reference(service, field, made) : field \in plan.staged}
<1>1. AuthDocument(plan, service, made).refs = {r \in plan.retained : r.field \notin plan.staged} \cup new
  BY AuthDocumentOf DEF PlanOf
<1> HIDE DEF new
<1>2. {r \in plan.retained : r.field \notin plan.staged} =
        refs \ (plan.retired \cup {r \in refs : r.field \in plan.staged})
  BY DEF PlanOf
<1> QED
  BY <1>1, <1>2 DEF new

LEMMA NewFinite ==
  ASSUME NEW fields \in SUBSET SecretFields, NEW service, NEW made
  PROVE  IsFiniteSet({Reference(service, field, made) : field \in fields})
<1> DEFINE one == {Reference(service, Password, made)}
           two == one \cup {Reference(service, PrivateKey, made)}
           three == two \cup {Reference(service, KeyPassword, made)}
           four == three \cup {Reference(service, Token, made)}
           all == four \cup {Reference(service, ClientSecret, made)}
           new == {Reference(service, field, made) : field \in fields}
<1>1. IsFiniteSet(all)
  <2>1. IsFiniteSet(one)
    BY FS_Singleton
  <2> HIDE DEF one
  <2>2. IsFiniteSet(two)
    BY <2>1, FS_AddElement
  <2> HIDE DEF two
  <2>3. IsFiniteSet(three)
    BY <2>2, FS_AddElement
  <2> HIDE DEF three
  <2>4. IsFiniteSet(four)
    BY <2>3, FS_AddElement
  <2> HIDE DEF four
  <2> QED
    BY <2>4, FS_AddElement
<1>2. new \subseteq all
  BY DEF SecretFields
<1> HIDE DEF all, new
<1>3. IsFiniteSet(new)
  BY <1>1, <1>2, FS_Subset
<1> QED
  BY <1>3 DEF new

\* What an edit stages and retires is the difference of the two documents.
LEMMA EditExact ==
  ASSUME NEW d \in Documents, Tagged(d), NEW o, TypedOptions(o), NEW in \in EditInputs(d, o),
         NEW made \in Nat, NEW result \in EditResults(d, o, in, made)
  PROVE  /\ result.document \in Documents /\ Tagged(result.document)
         /\ result.staged \subseteq References /\ IsFiniteSet(result.staged)
         /\ \A r \in result.staged : r.made = made
         /\ result.retired \subseteq RefsOf(d)
         /\ RefsOf(result.document) = (RefsOf(d) \ result.retired) \cup result.staged
<1> DEFINE new == result.document
           ki == in.kafka
           ri == in.registry
           old == d.registry
           A == d.kafka.auth.refs
           B == AuthOf(old).refs
<1>1. /\ ~RequestConflicts(o, ki, ri)
      /\ ki \in KafkaEditInputs(o, d.kafka.auth) /\ ri \in RegistryEditInputs(o, old)
  BY ResultParts
<1>2. PICK e, k, p : EditOf(result, d, o, in, made, e, k, p)
  BY ResultIsEdit
<1>3. /\ d.kafka \in KafkaConnections /\ old \in Registries \cup {None}
  BY DEF Documents
<1> DEFINE goneA == k.retired \cup {r \in A : r.field \in k.staged}
           newA == {Reference("kafka", f, made) : f \in k.staged}
           goneB == p.retired \cup {r \in B : r.field \in p.staged}
           newB == {Reference("registry", f, made) : f \in p.staged}
<1>4. /\ new.kafka.auth.refs = (A \ goneA) \cup newA
      /\ goneA \subseteq A /\ k.staged \subseteq SecretFields
  <2>1. CASE ki = None
    <3>1. new.kafka.auth = d.kafka.auth
      BY <1>2, <1>3, <2>1, TransportEdited DEF EditOf
    <3>2. k.retired = {} /\ k.staged = {}
      BY <1>2, <2>1 DEF EditOf, NoPlan, Plan
    <3> QED
      BY <3>1, <3>2
  <2>2. CASE ki # None
    <3>1. PlanOf(k, A, KafkaTypes) /\ new.kafka.auth = AuthDocument(k, "kafka", made)
      BY <1>2, <2>2 DEF EditOf
    <3>2. goneA \subseteq A /\ k.staged \subseteq SecretFields
      BY <3>1 DEF PlanOf
    <3> HIDE DEF A
    <3> QED
      BY <3>1, <3>2, ServiceExact
  <2> QED
    BY <2>1, <2>2
<1>5. /\ AuthOf(new.registry).refs = (B \ goneB) \cup newB
      /\ goneB \subseteq B /\ p.staged \subseteq SecretFields
  <2>1. CASE ri = None
    <3>1. AuthOf(new.registry) = AuthOf(e.registry)
      BY <1>2, <2>1 DEF EditOf, AuthOf
    <3>2. \/ B = AuthOf(e.registry).refs /\ p = NoPlan
          \/ B # AuthOf(e.registry).refs /\ p = Plan(NoAuth, B, {}, {})
      BY <1>2, <2>1 DEF EditOf, RegistryEditPlans
    <3>3. CASE B = AuthOf(e.registry).refs /\ p = NoPlan
      <4>1. p.retired = {} /\ p.staged = {}
        BY <3>3 DEF NoPlan, Plan
      <4> QED
        BY <3>1, <3>3, <4>1
    <3>4. CASE B # AuthOf(e.registry).refs /\ p = Plan(NoAuth, B, {}, {})
      <4>1. p.retired = B /\ p.staged = {}
        BY <3>4 DEF Plan
      <4>2. e.registry = None
        BY <1>2, <1>3, <3>4, RegistryEdited DEF EditOf, AuthOf
      <4>3. AuthOf(new.registry).refs = {}
        BY <3>1, <4>2 DEF AuthOf, NoAuth
      <4> QED
        BY <4>1, <4>3
    <3> QED
      BY <3>2, <3>3, <3>4
  <2>2. CASE ri # None
    <3>1. /\ PlanOf(p, B, RegistryTypes)
          /\ ri.type = "none" => p.staged = {}
      BY <1>2, <2>2 DEF EditOf
    <3>2. goneB \subseteq B /\ p.staged \subseteq SecretFields
      BY <3>1 DEF PlanOf
    <3>3. CASE new.registry = None
      <4>1. ~Unsets(o, "registry")
        BY <1>1, <2>2 DEF RequestConflicts
      <4>2. old = None /\ Value(o, "registry_url") = None
        BY <1>2, <1>3, <3>3, <4>1, RegistryEdited DEF EditOf
      <4>3. ri.type = "none"
        BY <1>1, <1>3, <2>2, <4>2, RegistryEditTyped DEF Either
      <4>4. B = {} /\ AuthOf(new.registry).refs = {} /\ p.staged = {}
        BY <3>1, <3>3, <4>2, <4>3 DEF AuthOf, NoAuth
      <4> QED
        BY <3>2, <4>4
    <3>4. CASE new.registry # None
      <4>1. AuthOf(new.registry) = AuthDocument(p, "registry", made)
        BY <1>2, <2>2, <3>4 DEF EditOf, AuthOf
      <4> HIDE DEF B
      <4> QED
        BY <3>1, <3>2, <4>1, ServiceExact
    <3> QED
      BY <3>3, <3>4
  <2> QED
    BY <2>1, <2>2
<1>6. result.staged = newA \cup newB /\ result.retired = goneA \cup goneB
  BY <1>2 DEF EditOf, Staged, Retired
<1>7. /\ \A r \in newA : r \in References /\ r.service = "kafka" /\ r.made = made
      /\ \A r \in newB : r \in References /\ r.service = "registry" /\ r.made = made
  BY <1>4, <1>5 DEF Reference, References
<1>8. IsFiniteSet(newA) /\ IsFiniteSet(newB)
  BY <1>4, <1>5, NewFinite
<1>9. /\ \A r \in A : r.service = "kafka"
      /\ \A r \in B : r.service = "registry"
      /\ RefsOf(d) = A \cup B
      /\ RefsOf(new) = new.kafka.auth.refs \cup AuthOf(new.registry).refs
      /\ new \in Documents
  BY <1>2 DEF Tagged, RefsOf, EditOf
<1> HIDE DEF A, B, new, goneA, goneB, newA, newB
<1>10. IsFiniteSet(result.staged)
  BY <1>6, <1>8, FS_Union
<1>11. RefsOf(new) = (RefsOf(d) \ result.retired) \cup result.staged
  BY <1>4, <1>5, <1>6, <1>9
<1>12. Tagged(new)
  BY <1>4, <1>5, <1>7, <1>9 DEF Tagged
<1> QED
  BY <1>4, <1>5, <1>6, <1>7, <1>9, <1>10, <1>11, <1>12 DEF new

RegistryOptionsOf(d, o) == IF Unsets(o, "registry") THEN None ELSE d.registry

\* What edit_rule_violation reads of the options and of the stored document is
\* what the new document has, but for the Registry's TLS material.
LEMMA DocumentMatches ==
  ASSUME NEW d \in Documents, NEW o, TypedOptions(o), NEW in \in EditInputs(d, o), NEW made \in Nat,
         NEW result \in EditResults(d, o, in, made)
  PROVE  LET new == result.document
             r == RegistryOptionsOf(d, o)
             url == Either(Value(o, "registry_url"), IF r = None THEN None ELSE r.url) IN
         /\ new \in Documents
         /\ new.kafka.transport = Either(Value(o, "transport"), d.kafka.transport)
         /\ new.kafka.auth.type = Either(Value(o, "auth_type"), d.kafka.auth.type)
         /\ new.registry = None => url = None
         /\ new.registry # None =>
              /\ new.registry.url = url
              /\ new.registry.provider =
                   Either(Value(o, "registry_provider"), IF r = None THEN "confluent" ELSE r.provider)
              /\ new.registry.auth.type = Either(Value(o, "registry_auth"), AuthOf(r).type)
              /\ AnyGiven(o, {"registry_ca_file", "registry_client_certificate_file"}) =>
                   HasTls(new.registry)
              /\ HasTls(new.registry) =>
                   \/ AnyGiven(o, {"registry_ca_file", "registry_client_certificate_file"})
                   \/ r # None /\ HasTls(r)
<1> DEFINE new == result.document
           ki == in.kafka
           ri == in.registry
           old == d.registry
<1>1. /\ ~Contradicts(o) /\ ~RequestConflicts(o, ki, ri)
      /\ ki \in KafkaEditInputs(o, d.kafka.auth) /\ ri \in RegistryEditInputs(o, old)
  BY ResultParts
<1>2. PICK e, k, p : EditOf(result, d, o, in, made, e, k, p)
  BY ResultIsEdit
<1>3. /\ d.kafka \in KafkaConnections /\ d.kafka.auth \in Auths(KafkaTypes)
      /\ old \in Registries \cup {None}
  BY DEF Documents, KafkaConnections
<1>4. /\ ki # None => PlanOf(k, d.kafka.auth.refs, KafkaTypes) /\ k.auth.type = ki.type
      /\ ri # None => /\ PlanOf(p, AuthOf(old).refs, RegistryTypes)
                      /\ p.auth.type = ri.type /\ p.auth.certificate = ri.certificate
  BY <1>2 DEF EditOf
<1>5. e.kafka \in TransportEdits(d.kafka, o) /\ e.registry \in RegistryEdits(old, o)
  BY <1>2 DEF EditOf
<1>6. /\ new \in Documents
      /\ new.kafka.transport = e.kafka.transport
      /\ new.kafka.auth = IF ki = None THEN e.kafka.auth ELSE AuthDocument(k, "kafka", made)
      /\ new.registry = None <=> e.registry = None
      /\ new.registry # None =>
           /\ new.registry.provider = e.registry.provider /\ new.registry.url = e.registry.url
           /\ IF ri = None THEN new.registry = e.registry
              ELSE /\ new.registry.ca = ri.tlsCa
                   /\ new.registry.auth = AuthDocument(p, "registry", made)
  BY <1>2 DEF EditOf
<1> HIDE DEF new
<1>7. /\ new.kafka.transport = Either(Value(o, "transport"), d.kafka.transport)
      /\ new.kafka.auth.type = Either(Value(o, "auth_type"), d.kafka.auth.type)
  <2>1. /\ e.kafka.transport = Either(Value(o, "transport"), d.kafka.transport)
        /\ e.kafka.auth = d.kafka.auth
    BY <1>3, <1>5, TransportEdited
  <2>2. CASE ki = None
    <3>1. ~Given(o, "auth_type")
      BY <1>1, <1>3, <2>2, KafkaEditTyped DEF KafkaAuthRequested, AnyGiven, Given
    <3> QED
      BY <1>6, <2>1, <2>2, <3>1 DEF Value, Either
  <2>3. CASE ki # None
    <3>1. new.kafka.auth.type = ki.type
      BY <1>4, <1>6, <2>3, AuthDocumentOf DEF PlanOf
    <3>2. ki.type = Either(Value(o, "auth_type"), d.kafka.auth.type)
      BY <1>1, <1>3, <2>3, KafkaEditTyped
    <3> QED
      BY <1>6, <2>1, <3>1, <3>2
  <2> QED
    BY <2>2, <2>3
<1> DEFINE r == RegistryOptionsOf(d, o)
           url == Either(Value(o, "registry_url"), IF r = None THEN None ELSE r.url)
<1>8. new.registry = None => url = None
  <2> SUFFICES ASSUME new.registry = None PROVE url = None
    OBVIOUS
  <2>1. CASE Unsets(o, "registry")
    <3>1. ~Given(o, "registry_url")
      BY <1>1, <2>1 DEF RequestConflicts, AnyGiven, Given
    <3> QED
      BY <2>1, <3>1 DEF RegistryOptionsOf, Value, Either
  <2>2. CASE ~Unsets(o, "registry")
    <3>1. old = None /\ Value(o, "registry_url") = None
      BY <1>3, <1>5, <1>6, <2>2, RegistryEdited
    <3> QED
      BY <2>2, <3>1 DEF RegistryOptionsOf, Either
  <2> QED
    BY <2>1, <2>2
<1>9. ASSUME new.registry # None
      PROVE  /\ r = old
             /\ new.registry.url = url
             /\ new.registry.provider =
                  Either(Value(o, "registry_provider"), IF r = None THEN "confluent" ELSE r.provider)
             /\ e.registry.auth = AuthOf(r)
             /\ e.registry.ca = IF r = None THEN None ELSE r.ca
  <2>1. ~Unsets(o, "registry") /\ e.registry # None
    BY <1>3, <1>5, <1>6, <1>9, RegistryEdited
  <2>2. r = old
    BY <2>1 DEF RegistryOptionsOf
  <2> QED
    BY <1>3, <1>5, <1>6, <1>9, <2>1, <2>2, RegistryEdited DEF AuthOf, Either
<1> DEFINE type == Either(Value(o, "registry_auth"), AuthOf(old).type)
           v == RegistryEditValues(o, type, old)
           stored == IF type = AuthOf(old).type THEN AuthOf(old) ELSE NoAuth
           fileCa == Value(o, "registry_ca_file")
           fileCertificate == Value(o, "registry_client_certificate_file")
           files == AnyGiven(o, {"registry_ca_file", "registry_client_certificate_file"})
<1>10. /\ v.tlsCa = Replaced(fileCa, Unsets(o, "registry.tls.ca"), IF old = None THEN None ELSE old.ca)
       /\ v.certificate = Either(fileCertificate, stored.certificate)
  <2>1. type \in RegistryTypes
    BY <1>3, ChoiceType, AuthOfTyped DEF Either, Auths
  <2> QED
    BY <1>3, <2>1, RegistryEditValuesTyped
<1>11. /\ files <=> fileCa # None \/ fileCertificate # None
       /\ fileCa # None => ~Unsets(o, "registry.tls.ca")
  <2>1. /\ Given(o, "registry_ca_file") <=> fileCa # None
        /\ Given(o, "registry_client_certificate_file") <=> fileCertificate # None
    BY ValueType DEF Choices
  <2> QED
    BY <1>1, <2>1 DEF AnyGiven, Given, Contradicts
<1>12. /\ ri = None => /\ type = AuthOf(old).type
                       /\ RegistryAuthRequested(o) => v.tlsCa = None /\ v.certificate = None
       /\ ri # None => ri.type = type /\ ri.tlsCa = v.tlsCa /\ ri.certificate = v.certificate
  BY <1>1, <1>3, RegistryEditTyped
<1>13. files => RegistryAuthRequested(o)
  BY DEF AnyGiven, RegistryAuthRequested, RegistryOptions, RegistryIdentity
<1> HIDE DEF v, type, fileCa, fileCertificate, files
<1>14. /\ fileCa # None => v.tlsCa # None
       /\ fileCertificate # None => v.certificate # None
       /\ v.tlsCa # None => fileCa # None \/ (old # None /\ old.ca # None)
       /\ v.certificate # None => fileCertificate # None \/ stored.certificate # None
  BY <1>10, <1>11 DEF Replaced, Either
<1>15. stored.certificate # None => old # None /\ HasTls(old)
  BY DEF AuthOf, NoAuth, HasTls
<1>16. ASSUME new.registry # None
       PROVE  /\ new.registry.auth.type = type
              /\ files => HasTls(new.registry)
              /\ HasTls(new.registry) => files \/ (r # None /\ HasTls(r))
  <2>1. CASE ri = None
    <3>1. new.registry = e.registry /\ type = AuthOf(old).type
      BY <1>6, <1>12, <1>16, <2>1
    <3>2. ~files
      BY <1>11, <1>12, <1>13, <1>14, <2>1
    <3>3. HasTls(new.registry) => r # None /\ HasTls(r)
      BY <1>9, <1>16, <3>1 DEF HasTls, AuthOf, NoAuth
    <3> QED
      BY <1>9, <1>16, <3>1, <3>2, <3>3
  <2>2. CASE ri # None
    <3>1. /\ new.registry.auth.type = type /\ new.registry.ca = v.tlsCa
          /\ new.registry.auth.certificate = v.certificate
      BY <1>4, <1>6, <1>12, <1>16, <2>2, AuthDocumentOf DEF PlanOf
    <3>2. HasTls(new.registry) <=> v.tlsCa # None \/ v.certificate # None
      BY <3>1 DEF HasTls
    <3>3. old # None /\ old.ca # None => HasTls(old)
      BY DEF HasTls
    <3> QED
      BY <1>9, <1>11, <1>14, <1>15, <1>16, <3>1, <3>2, <3>3
  <2> QED
    BY <2>1, <2>2
<1> QED
  BY <1>6, <1>7, <1>8, <1>9, <1>16 DEF new, type, files

-----------------------------------------------------------------------------
(* What an addition makes of its options *)

\* All that the proofs below need of the result of an addition.
AdditionOf(result, o, in, made, e, k, p) ==
  LET new == result.document
      plans == [kafka |-> k, registry |-> p] IN
  /\ e \in NewDocuments(o) /\ e \in Documents
  /\ in.kafka \in Inputs(KafkaTypes) /\ in.kafka # None
  /\ in.kafka.type = Either(Value(o, "auth_type"), "none")
  /\ in.registry \in RegistryAddInputs(o)
  /\ PlanOf(k, {}, KafkaTypes) /\ k.auth.type = in.kafka.type
  /\ in.registry = None => p = NoPlan
  /\ in.registry # None =>
       /\ PlanOf(p, {}, RegistryTypes)
       /\ p.auth.type = in.registry.type /\ p.auth.certificate = in.registry.certificate
  /\ new \in Documents
  /\ new.kafka.transport = e.kafka.transport /\ new.kafka.auth = AuthDocument(k, "kafka", made)
  /\ new.registry = None <=> e.registry = None
  /\ new.registry # None =>
       /\ new.registry.provider = e.registry.provider /\ new.registry.url = e.registry.url
       /\ IF in.registry = None THEN new.registry = e.registry
          ELSE /\ new.registry.ca = in.registry.tlsCa
               /\ new.registry.auth = AuthDocument(p, "registry", made)
  /\ result.staged = Staged(plans, made) /\ result.retired = {}

\* The document, the inputs and the plans that a result is made of.
AddedFrom(result, in, made, e, k, r) ==
  LET plans == [kafka |-> k, registry |-> r] IN
  result = [document |-> WithAuth(e, in, plans, made), staged |-> Staged(plans, made), retired |-> {}]

AdditionPlans(in) == IF in.registry = None THEN {NoPlan} ELSE RegistryPlans(None, in.registry)

LEMMA AdditionParts ==
  ASSUME NEW o, NEW in \in AddInputs(o), NEW made, NEW result \in AddResults(o, in, made)
  PROVE  /\ in.kafka \in KafkaAddInputs(o) /\ in.registry \in RegistryAddInputs(o)
         /\ \E e \in NewDocuments(o) :
              \E k \in KafkaEditPlans(NoAuth, in.kafka, e.kafka.transport), r \in AdditionPlans(in) :
                AddedFrom(result, in, made, e, k, r)
<1> DEFINE results(e) ==
             {[document |-> WithAuth(e, in, [kafka |-> k, registry |-> r], made),
               staged |-> Staged([kafka |-> k, registry |-> r], made), retired |-> {}] :
                k \in KafkaEditPlans(NoAuth, in.kafka, e.kafka.transport),
                r \in AdditionPlans(in)}
<1>1. AddResults(o, in, made) = UNION {results(e) : e \in {d \in NewDocuments(o) : Verdict(d) = "done"}}
  BY DEF AddResults, AdditionPlans
<1>2. ASSUME NEW e, result \in results(e)
      PROVE  \E k \in KafkaEditPlans(NoAuth, in.kafka, e.kafka.transport), r \in AdditionPlans(in) :
               AddedFrom(result, in, made, e, k, r)
  <2> DEFINE K == KafkaEditPlans(NoAuth, in.kafka, e.kafka.transport)
             R == AdditionPlans(in)
             f(k, r) == [document |-> WithAuth(e, in, [kafka |-> k, registry |-> r], made),
                         staged |-> Staged([kafka |-> k, registry |-> r], made), retired |-> {}]
  <2>1. results(e) = {f(k, r) : k \in K, r \in R}
    OBVIOUS
  <2>2. \A k, r : result = f(k, r) => AddedFrom(result, in, made, e, k, r)
    BY DEF AddedFrom
  <2> HIDE DEF results, K, R, f
  <2>3. \E k \in K, r \in R : AddedFrom(result, in, made, e, k, r)
    BY <1>2, <2>1, <2>2
  <2> QED
    BY <2>3 DEF K, R
<1>3. in.kafka \in KafkaAddInputs(o) /\ in.registry \in RegistryAddInputs(o)
  BY DEF AddInputs
<1> HIDE DEF results
<1> QED
  BY <1>1, <1>2, <1>3

LEMMA ResultIsAddition ==
  ASSUME NEW o, TypedOptions(o), NEW in \in AddInputs(o), NEW made \in Nat,
         NEW result \in AddResults(o, in, made)
  PROVE  \E e, k, p : AdditionOf(result, o, in, made, e, k, p)
<1> DEFINE new == result.document
           ki == in.kafka
           ri == in.registry
<1>1. ki \in KafkaAddInputs(o) /\ ri \in RegistryAddInputs(o)
  BY AdditionParts
<1>2. PICK e \in NewDocuments(o) :
        \E k \in KafkaEditPlans(NoAuth, ki, e.kafka.transport), p \in AdditionPlans(in) :
          AddedFrom(result, in, made, e, k, p)
  BY AdditionParts
<1>3. PICK k \in KafkaEditPlans(NoAuth, ki, e.kafka.transport), p \in AdditionPlans(in) :
        AddedFrom(result, in, made, e, k, p)
  BY <1>2
<1> DEFINE plans == [kafka |-> k, registry |-> p]
           none == {}
<1>4. /\ ki \in Inputs(KafkaTypes) /\ ki # None
      /\ ki.type = Either(Value(o, "auth_type"), "none")
  BY <1>1, KafkaAddTyped, InputIsSomething
<1>5. PlanOf(k, {}, KafkaTypes) /\ k.auth.type = ki.type
  <2>1. k \in KafkaPlans(NoAuth, ki)
    BY <1>4 DEF KafkaEditPlans
  <2>2. PlanOf(k, NoAuth.refs, KafkaTypes) /\ k.auth.type = ki.type
    BY <1>4, <2>1, NothingTyped, KafkaPlansTyped
  <2> QED
    BY <2>2 DEF NoAuth
<1>6. ri = None => p = NoPlan
  BY DEF AdditionPlans
<1>7. ri # None => /\ ri \in Inputs(RegistryTypes)
                  /\ PlanOf(p, {}, RegistryTypes)
                  /\ p.auth.type = ri.type /\ p.auth.certificate = ri.certificate
  <2> SUFFICES ASSUME ri # None
               PROVE  /\ ri \in Inputs(RegistryTypes)
                      /\ PlanOf(p, {}, RegistryTypes)
                      /\ p.auth.type = ri.type /\ p.auth.certificate = ri.certificate
    OBVIOUS
  <2>1. p \in RegistryPlans(None, ri)
    BY DEF AdditionPlans
  <2>2. ri \in Inputs(RegistryTypes) /\ (ri.type # "mtls" => ri.certificate = None)
    BY <1>1, RegistryAddTyped
  <2>3. /\ PlanOf(p, AuthOf(None).refs, RegistryTypes)
        /\ p.auth.type = ri.type /\ p.auth.certificate = ri.certificate
    BY <2>1, <2>2, RegistryPlansTyped
  <2> QED
    BY <2>2, <2>3 DEF AuthOf, NoAuth
<1>8. e \in Documents
  BY NewTyped
<1>9. /\ plans.kafka = k /\ plans.registry = p /\ new = WithAuth(e, in, plans, made)
      /\ result.staged = Staged(plans, made) /\ result.retired = {}
  BY <1>3 DEF AddedFrom
<1>10. none \in SUBSET References /\ none = {}
  OBVIOUS
<1> HIDE DEF plans, new, none
<1>11. PlansOf(in, plans, none, none)
  BY <1>5, <1>7, <1>9, <1>10 DEF PlansOf
<1>12. /\ new \in Documents /\ new.description = e.description
       /\ new.kafka.transport = e.kafka.transport /\ new.kafka.ca = e.kafka.ca
       /\ new.kafka.auth = AuthDocument(k, "kafka", made)
       /\ new.registry = None <=> e.registry = None
       /\ new.registry # None =>
            /\ new.registry.provider = e.registry.provider /\ new.registry.url = e.registry.url
            /\ IF ri = None THEN new.registry = e.registry
               ELSE /\ new.registry.ca = ri.tlsCa
                    /\ new.registry.auth = AuthDocument(p, "registry", made)
  <2>1. Authenticated(new, e, in, plans, made)
    BY <1>8, <1>9, <1>11, WithAuthTyped
  <2> QED
    BY <1>4, <1>9, <2>1 DEF Authenticated
<1>13. AdditionOf(result, o, in, made, e, k, p)
  BY <1>1, <1>4, <1>5, <1>6, <1>7, <1>8, <1>9, <1>12 DEF AdditionOf, new, plans
<1> QED
  BY <1>13

\* A new document refers to what is staged for it.
LEMMA AdditionExact ==
  ASSUME NEW o, TypedOptions(o), NEW in \in AddInputs(o), NEW made \in Nat,
         NEW result \in AddResults(o, in, made)
  PROVE  /\ result.document \in Documents /\ Tagged(result.document)
         /\ result.staged \subseteq References /\ IsFiniteSet(result.staged)
         /\ \A r \in result.staged : r.made = made
         /\ result.retired = {} /\ RefsOf(result.document) = result.staged
<1> DEFINE new == result.document
           ri == in.registry
<1>1. PICK e, k, p : AdditionOf(result, o, in, made, e, k, p)
  BY ResultIsAddition
<1> DEFINE newA == {Reference("kafka", f, made) : f \in k.staged}
           newB == {Reference("registry", f, made) : f \in p.staged}
           none == {}
<1>2. new.kafka.auth.refs = newA /\ k.staged \subseteq SecretFields
  <2>1. PlanOf(k, none, KafkaTypes) /\ new.kafka.auth = AuthDocument(k, "kafka", made)
    BY <1>1 DEF AdditionOf
  <2>2. k.staged \subseteq SecretFields /\ k.retired = {}
    BY <2>1 DEF PlanOf
  <2> HIDE DEF none
  <2>3. AuthDocument(k, "kafka", made).refs =
          (none \ (k.retired \cup {r \in none : r.field \in k.staged})) \cup newA
    BY <2>1, ServiceExact
  <2> QED
    BY <2>1, <2>2, <2>3 DEF none
<1>3. AuthOf(new.registry).refs = newB /\ p.staged \subseteq SecretFields
  <2>1. CASE ri = None
    <3>1. p.staged = {}
      BY <1>1, <2>1 DEF AdditionOf, NoPlan, Plan
    <3>2. AuthOf(new.registry) = AuthOf(e.registry)
      BY <1>1, <2>1 DEF AdditionOf, AuthOf
    <3>3. AuthOf(e.registry) = NoAuth
      BY <1>1, NewTyped DEF AdditionOf, AuthOf
    <3> QED
      BY <3>1, <3>2, <3>3 DEF NoAuth
  <2>2. CASE ri # None
    <3>1. PlanOf(p, none, RegistryTypes)
      BY <1>1, <2>2 DEF AdditionOf
    <3>2. p.staged \subseteq SecretFields /\ p.retired = {}
      BY <3>1 DEF PlanOf
    <3>3. new.registry # None
      <4>1. Given(o, "registry_url")
        BY <1>1, <2>2, RegistryAddTyped DEF AdditionOf, Value
      <4> QED
        BY <1>1, <4>1, NewTyped DEF AdditionOf
    <3>4. AuthOf(new.registry) = AuthDocument(p, "registry", made)
      BY <1>1, <2>2, <3>3 DEF AdditionOf, AuthOf
    <3> HIDE DEF none
    <3>5. AuthDocument(p, "registry", made).refs =
            (none \ (p.retired \cup {r \in none : r.field \in p.staged})) \cup newB
      BY <3>1, ServiceExact
    <3> QED
      BY <3>2, <3>4, <3>5 DEF none
  <2> QED
    BY <2>1, <2>2
<1>4. result.staged = newA \cup newB /\ result.retired = {} /\ new \in Documents
  BY <1>1 DEF AdditionOf, Staged
<1>5. /\ \A r \in newA : r \in References /\ r.service = "kafka" /\ r.made = made
      /\ \A r \in newB : r \in References /\ r.service = "registry" /\ r.made = made
  BY <1>2, <1>3 DEF Reference, References
<1>6. IsFiniteSet(newA) /\ IsFiniteSet(newB)
  BY <1>2, <1>3, NewFinite
<1>7. RefsOf(new) = new.kafka.auth.refs \cup AuthOf(new.registry).refs
  BY DEF RefsOf
<1> HIDE DEF new, newA, newB
<1>8. IsFiniteSet(result.staged)
  BY <1>4, <1>6, FS_Union
<1>9. Tagged(new)
  BY <1>2, <1>3, <1>5 DEF Tagged
<1> QED
  BY <1>2, <1>3, <1>4, <1>5, <1>7, <1>8, <1>9 DEF new

\* What add_rule_violation does not forbid is not forbidden of the document.
LEMMA AdditionIsAllowed ==
  ASSUME NEW o, TypedOptions(o), NEW in \in AddInputs(o), NEW made \in Nat,
         NEW result \in AddResults(o, in, made), ~AddViolation(o)
  PROVE  ~DocumentViolation(result.document)
<1> DEFINE new == result.document
           ri == in.registry
           type == Either(Value(o, "registry_auth"), "none")
           provider == Either(Value(o, "registry_provider"), "confluent")
           files == AnyGiven(o, {"registry_ca_file", "registry_client_certificate_file"})
<1>1. PICK e, k, p : AdditionOf(result, o, in, made, e, k, p)
  BY ResultIsAddition
<1>2. /\ new.kafka.transport = NewTransport(o)
      /\ new.kafka.auth.type = Either(Value(o, "auth_type"), "none")
  <2>1. new.kafka.transport = NewTransport(o)
    BY <1>1, NewTyped DEF AdditionOf
  <2>2. new.kafka.auth.type = k.auth.type
    BY <1>1, AuthDocumentOf DEF AdditionOf, PlanOf
  <2> QED
    BY <1>1, <2>1, <2>2 DEF AdditionOf
<1>3. ASSUME new.registry # None
      PROVE  /\ new.registry.url = Value(o, "registry_url") /\ new.registry.provider = provider
             /\ new.registry.auth.type = type
             /\ HasTls(new.registry) => files
  <2>1. e.registry # None
    BY <1>1, <1>3 DEF AdditionOf
  <2>2. /\ new.registry.url = Value(o, "registry_url") /\ new.registry.provider = provider
    BY <1>1, <1>3, <2>1, NewTyped DEF AdditionOf
  <2>3. CASE ri = None
    <3>1. new.registry = e.registry /\ type = "none"
      BY <1>1, <1>3, <2>3, RegistryAddTyped DEF AdditionOf
    <3>2. new.registry.auth = NoAuth /\ new.registry.ca = None
      BY <1>1, <2>1, <3>1, NewTyped DEF AdditionOf
    <3> QED
      BY <2>2, <3>1, <3>2 DEF NoAuth, HasTls
  <2>4. CASE ri # None
    <3>1. /\ ri.type = type /\ ri.tlsCa = Value(o, "registry_ca_file")
          /\ ri.certificate = Value(o, "registry_client_certificate_file")
      BY <1>1, <2>4, RegistryAddTyped DEF AdditionOf
    <3>2. /\ new.registry.ca = ri.tlsCa
          /\ new.registry.auth.type = ri.type /\ new.registry.auth.certificate = ri.certificate
      BY <1>1, <1>3, <2>4, AuthDocumentOf DEF AdditionOf, PlanOf
    <3>3. HasTls(new.registry) => files
      BY <3>1, <3>2 DEF HasTls, Value, Given, AnyGiven
    <3> QED
      BY <2>2, <3>1, <3>2, <3>3
  <2> QED
    BY <2>3, <2>4
<1> HIDE DEF new, type, provider, files
<1>4. ~RuleViolation(NewTransport(o), Either(Value(o, "auth_type"), "none"), provider,
                     Value(o, "registry_url"), type, files)
  BY DEF AddViolation, provider, type, files
<1>5. ~DocumentViolation(new)
  BY <1>2, <1>3, <1>4 DEF DocumentViolation, RuleViolation
<1> QED
  BY <1>5 DEF new

-----------------------------------------------------------------------------
(* What the checks before the prompts say of the finished document *)

\* What edit_rule_violation forbids, the profile layer forbids.
LEMMA EditIsForbidden ==
  ASSUME NEW d \in Documents, NEW o, TypedOptions(o), NEW in \in EditInputs(d, o), NEW made \in Nat,
         NEW result \in EditResults(d, o, in, made), EditViolation(d, o)
  PROVE  DocumentViolation(result.document)
<1> DEFINE new == result.document
           r == RegistryOptionsOf(d, o)
           url == Either(Value(o, "registry_url"), IF r = None THEN None ELSE r.url)
           provider == Either(Value(o, "registry_provider"), IF r = None THEN "confluent" ELSE r.provider)
           type == Either(Value(o, "registry_auth"), AuthOf(r).type)
           files == AnyGiven(o, {"registry_ca_file", "registry_client_certificate_file"})
           transport == Either(Value(o, "transport"), d.kafka.transport)
           kafka == Either(Value(o, "auth_type"), d.kafka.auth.type)
<1>1. /\ new.kafka.transport = transport /\ new.kafka.auth.type = kafka
      /\ new.registry = None => url = None
      /\ new.registry # None =>
           /\ new.registry.url = url /\ new.registry.provider = provider
           /\ new.registry.auth.type = type
           /\ files => HasTls(new.registry)
  BY DocumentMatches
<1>2. RuleViolation(transport, kafka, provider, url, type, files)
  BY DEF EditViolation, RegistryOptionsOf
<1> HIDE DEF new, url, provider, type, files, transport, kafka
<1>3. DocumentViolation(new)
  BY <1>1, <1>2, NoneAssumption DEF DocumentViolation, RuleViolation, Urls
<1> QED
  BY <1>3 DEF new

\* What the profile layer alone forbids is the stored CA of a Registry that moves
\* to http.
LEMMA EditIsAllowed ==
  ASSUME NEW d \in Documents, Verdict(d) = "done", NEW o, TypedOptions(o), NEW in \in EditInputs(d, o),
         NEW made \in Nat, NEW result \in EditResults(d, o, in, made),
         ~EditViolation(d, o), DocumentViolation(result.document)
  PROVE  Value(o, "registry_url") = "http" /\ d.registry # None /\ HasTls(d.registry)
<1> DEFINE new == result.document
           r == RegistryOptionsOf(d, o)
           url == Either(Value(o, "registry_url"), IF r = None THEN None ELSE r.url)
           provider == Either(Value(o, "registry_provider"), IF r = None THEN "confluent" ELSE r.provider)
           type == Either(Value(o, "registry_auth"), AuthOf(r).type)
           files == AnyGiven(o, {"registry_ca_file", "registry_client_certificate_file"})
           transport == Either(Value(o, "transport"), d.kafka.transport)
           kafka == Either(Value(o, "auth_type"), d.kafka.auth.type)
<1>1. /\ new.kafka.transport = transport /\ new.kafka.auth.type = kafka
      /\ new.registry = None => url = None
      /\ new.registry # None =>
           /\ new.registry.url = url /\ new.registry.provider = provider
           /\ new.registry.auth.type = type
           /\ HasTls(new.registry) => files \/ (r # None /\ HasTls(r))
  BY DocumentMatches
<1>2. ~RuleViolation(transport, kafka, provider, url, type, files)
  BY DEF EditViolation, RegistryOptionsOf
<1> HIDE DEF new, provider, type, files, transport, kafka, r
<1>3. url = "http" /\ r # None /\ HasTls(r)
  <2> HIDE DEF url
  <2>1. DocumentViolation(new)
    BY DEF new
  <2> QED
    BY <1>1, <1>2, <2>1 DEF DocumentViolation, RuleViolation
<1>4. d.registry # None /\ r = d.registry
  BY <1>3 DEF r, RegistryOptionsOf
<1>5. ~DocumentViolation(d)
  BY DEF Verdict
<1>6. r.url # "http"
  BY <1>3, <1>4, <1>5 DEF DocumentViolation, RuleViolation
<1> QED
  BY <1>3, <1>4, <1>6 DEF Either

-----------------------------------------------------------------------------
(* The invariant *)

\* secret_reference finds an identifier that is not in use.
LEMMA IdentifierIsFresh ==
  ASSUME vault \subseteq References, IsFiniteSet(vault)
  PROVE  FreshIdentifier \in Nat /\ \A r \in vault : r.made # FreshIdentifier
<1> DEFINE c == Cardinality(vault)
           S == 1..(c + 1)
           f == [n \in S |-> CHOOSE r \in vault : r.made = n]
<1>1. c \in Nat
  BY FS_CardinalityType
<1>2. IsFiniteSet(S) /\ Cardinality(S) = c + 1
  BY <1>1, FS_Interval
<1>3. \E n \in S : \A r \in vault : r.made # n
  <2> SUFFICES ASSUME \A n \in S : \E r \in vault : r.made = n
               PROVE  FALSE
    OBVIOUS
  <2>1. \A n \in S : f[n] \in vault /\ f[n].made = n
    OBVIOUS
  <2>2. f \in [S -> vault]
    BY <2>1
  <2>3. c < Cardinality(S)
    BY <1>1, <1>2
  <2> HIDE DEF S, f
  <2>4. \E x, y \in S : x # y /\ f[x] = f[y]
    BY <1>2, <2>2, <2>3, FS_PigeonHole
  <2> QED
    BY <2>1, <2>4
<1>4. FreshIdentifier \in S /\ \A r \in vault : r.made # FreshIdentifier
  BY <1>3 DEF FreshIdentifier
<1> QED
  BY <1>1, <1>4

\* The references of the profile, if there is one.
Referred == IF profile = None THEN {} ELSE RefsOf(profile)

\* What a command makes of the profile: new references have a fresh identifier.
ExactResult(result) ==
  /\ result.document \in Documents /\ Tagged(result.document)
  /\ result.staged \subseteq References /\ IsFiniteSet(result.staged)
  /\ result.staged \cap vault = {}
  /\ result.retired \subseteq Referred
  /\ RefsOf(result.document) = (Referred \ result.retired) \cup result.staged

LEMMA EditResultExact ==
  ASSUME TypeOK, StoreInv, profile # None, NEW o, TypedOptions(o), NEW in \in EditInputs(profile, o),
         NEW result \in EditResults(profile, o, in, FreshIdentifier)
  PROVE  ExactResult(result)
<1>1. FreshIdentifier \in Nat /\ \A r \in vault : r.made # FreshIdentifier
  BY IdentifierIsFresh DEF TypeOK
<1>2. profile \in Documents /\ Tagged(profile)
  BY DEF TypeOK, StoreInv
<1>3. /\ result.document \in Documents /\ Tagged(result.document)
      /\ result.staged \subseteq References /\ IsFiniteSet(result.staged)
      /\ \A r \in result.staged : r.made = FreshIdentifier
      /\ result.retired \subseteq RefsOf(profile)
      /\ RefsOf(result.document) = (RefsOf(profile) \ result.retired) \cup result.staged
  BY <1>1, <1>2, EditExact
<1> QED
  BY <1>1, <1>3 DEF ExactResult, Referred

LEMMA AdditionResultExact ==
  ASSUME TypeOK, profile = None, NEW o, TypedOptions(o), NEW in \in AddInputs(o),
         NEW result \in AddResults(o, in, FreshIdentifier)
  PROVE  ExactResult(result)
<1>1. FreshIdentifier \in Nat /\ \A r \in vault : r.made # FreshIdentifier
  BY IdentifierIsFresh DEF TypeOK
<1>2. /\ result.document \in Documents /\ Tagged(result.document)
      /\ result.staged \subseteq References /\ IsFiniteSet(result.staged)
      /\ \A r \in result.staged : r.made = FreshIdentifier
      /\ result.retired = {} /\ RefsOf(result.document) = result.staged
  BY <1>1, AdditionExact
<1> QED
  BY <1>1, <1>2 DEF ExactResult, Referred

\* Storing a result keeps the vault and the document together.
LEMMA StoresInv ==
  ASSUME TypeOK, StoreInv, NEW result, ExactResult(result), Verdict(result.document) = "done",
         Stores(result)
  PROVE  /\ StoreInv' /\ profile' \in Documents /\ profile' # None
         /\ vault' \subseteq References /\ IsFiniteSet(vault') /\ stranded' \subseteq References
<1>1. /\ profile' = result.document /\ vault' = (vault \cup result.staged) \ result.retired
      /\ stranded' = stranded
  BY DEF Stores
<1>2. vault = Referred \cup stranded /\ stranded \cap Referred = {}
  BY DEF StoreInv, VaultExact, Referred
<1>3. profile' \in Documents /\ profile' # None /\ Tagged(profile')
  BY <1>1, NoneAssumption DEF ExactResult
<1>4. /\ vault' = RefsOf(profile') \cup stranded'
      /\ stranded' \cap RefsOf(profile') = {}
  BY <1>1, <1>2 DEF ExactResult
<1>5. /\ vault' \subseteq References /\ stranded' \subseteq References
  BY <1>1 DEF TypeOK, ExactResult
<1>6. IsFiniteSet(vault')
  BY <1>1, FS_Union, FS_Difference DEF TypeOK, ExactResult
<1> QED
  BY <1>1, <1>3, <1>4, <1>5, <1>6 DEF StoreInv, VaultExact

\* A late refusal leaves its secrets beside the document.
LEMMA RefusesLateInv ==
  ASSUME TypeOK, StoreInv, NEW result, ExactResult(result), RefusesLate(result)
  PROVE  /\ StoreInv' /\ profile' = profile
         /\ vault' \subseteq References /\ IsFiniteSet(vault') /\ stranded' \subseteq References
<1>1. /\ profile' = profile /\ revision' = revision
      /\ vault' = vault \cup result.staged /\ stranded' = stranded \cup result.staged
  BY DEF RefusesLate
<1>2. vault = Referred \cup stranded /\ stranded \cap Referred = {}
  BY DEF StoreInv, VaultExact, Referred
<1>3. vault' = Referred \cup stranded' /\ stranded' \cap Referred = {}
  BY <1>1, <1>2 DEF ExactResult
<1>4. IsFiniteSet(vault') /\ vault' \subseteq References /\ stranded' \subseteq References
  BY <1>1, FS_Union DEF TypeOK, ExactResult
<1> QED
  BY <1>1, <1>3, <1>4 DEF StoreInv, VaultExact, Referred

LEMMA InitInv == Init => IInv
BY BoundsAssumption, FS_EmptySet
   DEF Init, IInv, TypeOK, StoreInv, EditInv, VaultExact

LEMMA RequestsTyped ==
  ASSUME TypeOK, NEW number \in Nat
  PROVE  /\ \A request \in AddRequests[identity] : TypedOptions(Asked(request, number))
         /\ \A request \in EditRequests[revision] : TypedOptions(Asked(request, number))
         /\ \A request \in OtherRequests[revision] : TypedOptions(Asked(request, number))
BY RequestsAssumption, AskedTyped DEF TypeOK

LEMMA AddInv ==
  ASSUME IInv, NEW request \in AddRequests[identity], Add(request)
  PROVE  IInv'
<1> DEFINE o == Asked(request, 1)
<1>1. PICK in \in AddInputs(o) :
        \E result \in AddResults(o, in, FreshIdentifier) :
          /\ Concludes(result)
          /\ identity' = IF profile' = None THEN identity ELSE identity + 1
  BY DEF Add
<1>2. PICK result \in AddResults(o, in, FreshIdentifier) :
          /\ Concludes(result)
          /\ identity' = IF profile' = None THEN identity ELSE identity + 1
  BY <1>1
<1>3. TypedOptions(o)
  BY RequestsTyped DEF IInv
<1> HIDE DEF o
<1>4. profile = None /\ ~Asking /\ edit' = edit
  BY DEF Add
<1>5. ExactResult(result)
  BY <1>3, <1>4, AdditionResultExact DEF IInv
<1>6. identity < MaxIdentities /\ identity \in Nat
  BY RequestsAssumption, BoundsAssumption DEF IInv, TypeOK
<1>7. CASE Verdict(result.document) = "done" /\ Stores(result)
  <2>1. /\ StoreInv' /\ profile' \in Documents /\ profile' # None
        /\ vault' \subseteq References /\ IsFiniteSet(vault') /\ stranded' \subseteq References
    BY <1>5, <1>7, StoresInv DEF IInv
  <2>2. identity' = identity + 1 /\ revision' = 1
    BY <1>2, <1>4, <1>7, <2>1 DEF Stores, IInv, StoreInv
  <2>3. TypeOK'
    BY <1>6, <2>1, <2>2, BoundsAssumption DEF TypeOK
  <2>4. EditInv'
    BY <1>4, <1>6, <2>2 DEF IInv, EditInv, Asking
  <2> QED
    BY <2>1, <2>3, <2>4 DEF IInv
<1>8. CASE RefusesLate(result)
  <2>1. /\ StoreInv' /\ profile' = profile
        /\ vault' \subseteq References /\ IsFiniteSet(vault') /\ stranded' \subseteq References
    BY <1>5, <1>8, RefusesLateInv DEF IInv
  <2>2. identity' = identity /\ revision' = revision
    BY <1>2, <1>4, <1>8, <2>1 DEF RefusesLate
  <2>3. TypeOK'
    BY <2>1, <2>2 DEF TypeOK, IInv
  <2>4. EditInv'
    BY <1>4, <2>1, <2>2 DEF IInv, EditInv, Asking
  <2> QED
    BY <2>1, <2>3, <2>4 DEF IInv
<1> QED
  BY <1>2, <1>7, <1>8 DEF Concludes

LEMMA AskInv ==
  ASSUME IInv, NEW request \in EditRequests[revision], Ask(request)
  PROVE  IInv'
<1> DEFINE o == Asked(request, revision + 1)
<1>1. TypedOptions(o)
  <2>1. revision + 1 \in Nat
    BY DEF IInv, TypeOK
  <2> QED
    BY <2>1, RequestsTyped DEF IInv
<1>2. /\ edit' = [phase |-> "asked", request |-> o, read |-> profile,
                  generation |-> <<identity, revision>>, in |-> None]
      /\ outcome' = "none" /\ profile # None /\ revision < MaxRevision
      /\ UNCHANGED <<profile, identity, revision, vault, stranded>>
  BY DEF Ask
<1> HIDE DEF o
<1>3. TypeOK' /\ StoreInv'
  BY <1>2 DEF IInv, TypeOK, StoreInv, VaultExact
<1>4. EditInv'
  BY <1>1, <1>2 DEF IInv, TypeOK, StoreInv, EditInv
<1> QED
  BY <1>3, <1>4 DEF IInv

LEMMA CollectInv == IInv /\ Collect => IInv'
<1> SUFFICES ASSUME IInv, Collect PROVE IInv'
  OBVIOUS
<1>1. /\ edit # None /\ ~EditViolation(edit.read, edit.request)
      /\ UNCHANGED <<profile, identity, revision, vault, stranded, outcome>>
  BY DEF Collect
<1>2. PICK in \in EditInputs(edit.read, edit.request) :
        edit' = [edit EXCEPT !.phase = "collected", !.in = in]
  BY DEF Collect
<1>3. edit' = [phase |-> "collected", request |-> edit.request, read |-> edit.read,
               generation |-> edit.generation, in |-> in]
  BY <1>1, <1>2 DEF IInv, EditInv
<1>4. TypeOK' /\ StoreInv'
  BY <1>1 DEF IInv, TypeOK, StoreInv, VaultExact
<1>5. EditInv'
  BY <1>1, <1>2, <1>3 DEF IInv, EditInv
<1> QED
  BY <1>4, <1>5 DEF IInv

LEMMA CommitInv == IInv /\ Commit => IInv'
<1> SUFFICES ASSUME IInv, Commit PROVE IInv'
  OBVIOUS
<1> DEFINE results == EditResults(profile, edit.request, edit.in, FreshIdentifier)
<1>1. /\ edit # None /\ edit.phase = "collected" /\ profile # None
      /\ edit.generation = <<identity, revision>> /\ edit' = None /\ identity' = identity
      /\ \/ \E result \in results : Concludes(result)
         \/ UNCHANGED <<profile, revision, vault, stranded>>
  BY DEF Commit, SameGeneration
<1>2. /\ TypedOptions(edit.request) /\ edit.in \in EditInputs(profile, edit.request)
      /\ revision < MaxRevision
  BY <1>1 DEF IInv, EditInv, TypeOK
<1>3. EditInv'
  BY <1>1 DEF EditInv
<1>4. ASSUME NEW result \in results, Stores(result), Verdict(result.document) = "done"
      PROVE  TypeOK' /\ StoreInv'
  <2>1. ExactResult(result)
    BY <1>1, <1>2, EditResultExact DEF IInv
  <2>2. /\ StoreInv' /\ profile' \in Documents
        /\ vault' \subseteq References /\ IsFiniteSet(vault') /\ stranded' \subseteq References
    BY <1>4, <2>1, StoresInv DEF IInv
  <2>3. revision' = revision + 1
    BY <1>4 DEF Stores
  <2> QED
    BY <1>1, <1>2, <2>2, <2>3, BoundsAssumption DEF IInv, TypeOK
<1>5. ASSUME NEW result \in results, RefusesLate(result)
      PROVE  TypeOK' /\ StoreInv'
  <2>1. ExactResult(result)
    BY <1>1, <1>2, EditResultExact DEF IInv
  <2>2. /\ StoreInv' /\ profile' = profile
        /\ vault' \subseteq References /\ IsFiniteSet(vault') /\ stranded' \subseteq References
    BY <1>5, <2>1, RefusesLateInv DEF IInv
  <2>3. revision' = revision
    BY <1>5 DEF RefusesLate
  <2> QED
    BY <1>1, <2>2, <2>3 DEF IInv, TypeOK
<1>6. ASSUME UNCHANGED <<profile, revision, vault, stranded>>
      PROVE  TypeOK' /\ StoreInv'
  BY <1>1, <1>6 DEF IInv, TypeOK, StoreInv, VaultExact
<1> HIDE DEF results
<1> QED
  BY <1>1, <1>3, <1>4, <1>5, <1>6 DEF IInv, Concludes

LEMMA RemoveInv == IInv /\ Remove => IInv'
<1> SUFFICES ASSUME IInv, Remove PROVE IInv'
  OBVIOUS
<1>1. /\ profile # None /\ ~Asking /\ profile' = None /\ revision' = 0
      /\ vault' = vault \ RefsOf(profile) /\ UNCHANGED <<identity, stranded, edit>>
  BY DEF Remove
<1>2. vault' = stranded'
  BY <1>1 DEF IInv, StoreInv, VaultExact
<1>3. TypeOK'
  <2>1. IsFiniteSet(vault') /\ vault' \subseteq References
    BY <1>1, FS_Difference DEF IInv, TypeOK
  <2> QED
    BY <1>1, <2>1, BoundsAssumption DEF IInv, TypeOK
<1>4. StoreInv'
  BY <1>1, <1>2 DEF StoreInv, VaultExact
<1>5. EditInv'
  BY <1>1 DEF IInv, EditInv, Asking
<1> QED
  BY <1>3, <1>4, <1>5 DEF IInv

LEMMA OtherEditInv ==
  ASSUME IInv, NEW request \in OtherRequests[revision], OtherEdit(request)
  PROVE  IInv'
<1> DEFINE o == Asked(request, revision + 1)
<1>1. PICK in \in EditInputs(profile, o) :
        \E result \in EditResults(profile, o, in, FreshIdentifier) :
          Verdict(result.document) = "done" /\ Stores(result)
  BY DEF OtherEdit
<1>2. PICK result \in EditResults(profile, o, in, FreshIdentifier) :
        Verdict(result.document) = "done" /\ Stores(result)
  BY <1>1
<1>3. TypedOptions(o)
  <2>1. revision + 1 \in Nat
    BY DEF IInv, TypeOK
  <2> QED
    BY <2>1, RequestsTyped DEF IInv
<1> HIDE DEF o
<1>4. /\ ~Asking /\ profile # None /\ revision < MaxRevision /\ UNCHANGED <<identity, edit>>
  BY DEF OtherEdit
<1>5. ExactResult(result)
  BY <1>3, <1>4, EditResultExact DEF IInv
<1>6. /\ StoreInv' /\ profile' \in Documents
      /\ vault' \subseteq References /\ IsFiniteSet(vault') /\ stranded' \subseteq References
  BY <1>2, <1>5, StoresInv DEF IInv
<1>7. revision' = revision + 1
  BY <1>2 DEF Stores
<1>8. TypeOK'
  BY <1>4, <1>6, <1>7, BoundsAssumption DEF IInv, TypeOK
<1>9. EditInv'
  BY <1>4, <1>7 DEF IInv, EditInv, TypeOK, Asking
<1> QED
  BY <1>6, <1>8, <1>9 DEF IInv

LEMMA RepairInv == IInv /\ Repair => IInv'
<1> SUFFICES ASSUME IInv, Repair PROVE IInv'
  OBVIOUS
<1>1. /\ vault' = vault \ stranded /\ stranded' = {}
      /\ UNCHANGED <<profile, identity, revision, edit, outcome>>
  BY DEF Repair
<1>2. TypeOK'
  BY <1>1, FS_Difference DEF IInv, TypeOK
<1>3. StoreInv'
  BY <1>1 DEF IInv, StoreInv, VaultExact
<1>4. EditInv'
  BY <1>1 DEF IInv, EditInv
<1> QED
  BY <1>2, <1>3, <1>4 DEF IInv

\* Refuse, Conflict: the edit ends without a change.
LEMMA EndInv ==
  ASSUME IInv, edit' = None, UNCHANGED <<profile, identity, revision, vault, stranded>>
  PROVE  IInv'
BY DEF IInv, TypeOK, StoreInv, EditInv, VaultExact

LEMMA StepInv == IInv /\ [Next]_vars => IInv'
<1> SUFFICES ASSUME IInv, [Next]_vars PROVE IInv'
  OBVIOUS
<1>1. CASE \E request \in AddRequests[identity] : Add(request)
  BY <1>1, AddInv
<1>2. CASE \E request \in EditRequests[revision] : Ask(request)
  BY <1>2, AskInv
<1>3. CASE Collect
  BY <1>3, CollectInv
<1>4. CASE Refuse \/ Conflict
  BY <1>4, EndInv DEF Refuse, Conflict
<1>5. CASE Commit
  BY <1>5, CommitInv
<1>6. CASE Remove \/ Repair
  BY <1>6, RemoveInv, RepairInv
<1>7. CASE \E request \in OtherRequests[revision] : OtherEdit(request)
  BY <1>7, OtherEditInv
<1>8. CASE UNCHANGED vars
  BY <1>8 DEF vars, IInv, TypeOK, StoreInv, EditInv, VaultExact
<1> QED
  BY <1>1, <1>2, <1>3, <1>4, <1>5, <1>6, <1>7, <1>8 DEF Next

-----------------------------------------------------------------------------
(* What an edit makes of the authentication with Kafka *)

LEMMA Ungiven ==
  ASSUME NEW o, NEW names, ~AnyGiven(o, names), NEW name \in names
  PROVE  ~Given(o, name) /\ Value(o, name) = None
BY DEF AnyGiven, Given, Value

\* No option of the request is about OAuth.
KafkaOAuthUnasked(o) ==
  /\ Value(o, "oauth_token_url") = None /\ Value(o, "oauth_client_id") = None
  /\ Value(o, "oauth_scope") = None /\ Value(o, "oauth_ca_file") = None
  /\ ~Unsets(o, "kafka.auth.oauth.scopes") /\ ~Unsets(o, "kafka.auth.oauth.ca")

\* What an input of an edit holds: an identity of mTLS that has a certificate
\* has a private key as well.
KafkaInputHas(o, current, in) ==
  LET replace == Replaces(o, "kafka") IN
  /\ in.type # "oauth" => KafkaOAuthUnasked(o)
  /\ in.type # "mtls" => Value(o, "client_certificate_file") = None
  /\ in.type \in {"none", "oauth"} => Value(o, "username") = None
  /\ in.type = "none" => replace = {}
  /\ in.type \in PasswordTypes =>
       /\ replace \subseteq {Password} /\ in.username = Value(o, "username")
       /\ Password \in in.secrets <=> replace # {} \/ current.type \notin PasswordTypes
  /\ in.type = "mtls" =>
       /\ Password \notin replace
       /\ IF in.certificate = None
          THEN Value(o, "client_certificate_file") = None /\ replace \cap {PrivateKey, KeyPassword} = {}
          ELSE /\ Given(o, "client_certificate_file") \/ PrivateKey \in replace
               /\ in.certificate = Either(Value(o, "client_certificate_file"), o.by)
               /\ PrivateKey \in in.secrets /\ in.secrets \subseteq {PrivateKey, KeyPassword}
  /\ in.type = "oauth" =>
       /\ replace \subseteq {ClientSecret}
       /\ in.tokenUrl = Value(o, "oauth_token_url") /\ in.clientId = Value(o, "oauth_client_id")
       /\ in.scopes = IF Unsets(o, "kafka.auth.oauth.scopes") THEN Empty ELSE Value(o, "oauth_scope")
       /\ in.ca = Value(o, "oauth_ca_file") /\ in.defaultTrust = Unsets(o, "kafka.auth.oauth.ca")
       /\ ClientSecret \in in.secrets <=> replace # {} \/ current.type # "oauth"

LEMMA KafkaMtlsInput ==
  ASSUME NEW o, TypedOptions(o), NEW in \in MtlsInputs(o, Replaces(o, "kafka"))
  PROVE  LET replace == Replaces(o, "kafka") IN
         /\ in.type = "mtls" /\ Password \notin replace
         /\ IF in.certificate = None
            THEN Value(o, "client_certificate_file") = None /\ replace \cap {PrivateKey, KeyPassword} = {}
            ELSE /\ Given(o, "client_certificate_file") \/ PrivateKey \in replace
                 /\ in.certificate = Either(Value(o, "client_certificate_file"), o.by)
                 /\ PrivateKey \in in.secrets /\ in.secrets \subseteq {PrivateKey, KeyPassword}
<1> DEFINE replace == Replaces(o, "kafka")
           certificate == Either(Value(o, "client_certificate_file"), o.by)
           named(file) == Given(o, file) \/ PrivateKey \in replace
<1>1. /\ Password \notin replace
      /\ KeyPassword \in replace => PrivateKey \in replace
      /\ named("client_certificate_file") = named("client_key_file")
      /\ \/ ~named("client_key_file") /\ in = [NoInput EXCEPT !.type = "mtls"]
         \/ /\ named("client_key_file")
            /\ \E key : in = [NoInput EXCEPT !.type = "mtls", !.secrets = KeySecrets(key),
                                !.certificate = certificate]
  BY DEF MtlsInputs
<1>2. certificate # None
  BY NoneAssumption DEF TypedOptions, Either
<1> HIDE DEF replace, certificate
<1>3. CASE ~named("client_key_file") /\ in = [NoInput EXCEPT !.type = "mtls"]
  <2>1. in.type = "mtls" /\ in.certificate = None
    BY <1>3 DEF NoInput
  <2>2. ~Given(o, "client_certificate_file") /\ PrivateKey \notin replace
    BY <1>1, <1>3
  <2> QED
    BY <1>1, <2>1, <2>2 DEF Value, replace
<1>4. ASSUME named("client_key_file"), NEW key,
             in = [NoInput EXCEPT !.type = "mtls", !.secrets = KeySecrets(key),
                     !.certificate = certificate]
      PROVE  /\ in.type = "mtls" /\ in.certificate = certificate
             /\ named("client_certificate_file")
             /\ PrivateKey \in in.secrets /\ in.secrets \subseteq {PrivateKey, KeyPassword}
  <2>1. in.type = "mtls" /\ in.certificate = certificate /\ in.secrets = KeySecrets(key)
    BY <1>4 DEF NoInput
  <2> QED
    BY <1>1, <1>4, <2>1 DEF KeySecrets
<1> QED
  BY <1>1, <1>2, <1>3, <1>4 DEF replace, certificate

LEMMA KafkaInputIs ==
  ASSUME NEW current \in Auths(KafkaTypes), NEW o, TypedOptions(o),
         NEW in \in KafkaEditInputs(o, current), in # None
  PROVE  KafkaInputHas(o, current, in)
<1> DEFINE replace == Replaces(o, "kafka")
           type == Either(Value(o, "auth_type"), current.type)
           scopes == IF Unsets(o, "kafka.auth.oauth.scopes") THEN Empty ELSE Value(o, "oauth_scope")
           passwordRequired == type \in PasswordTypes /\ current.type \notin PasswordTypes
           secretRequired == type = "oauth" /\ current.type # "oauth"
           unasked == /\ scopes = None /\ ~AnyGiven(o, KafkaOAuthOptions)
                      /\ ~Unsets(o, "kafka.auth.oauth.ca")
<1>1. in \in KafkaInputs(type, o, scopes, passwordRequired, secretRequired)
  BY DEF KafkaEditInputs
<1>2. in.type = type /\ type \in KafkaTypes
  BY KafkaEditTyped, ChoiceType DEF Either, Auths
<1>3. type # "oauth" => KafkaOAuthUnasked(o)
  <2> SUFFICES ASSUME type # "oauth" PROVE KafkaOAuthUnasked(o)
    OBVIOUS
  <2>1. unasked
    <3> HIDE DEF type, scopes
    <3> QED
      BY <1>1 DEF KafkaInputs
  <2>2. ~Unsets(o, "kafka.auth.oauth.scopes") /\ Value(o, "oauth_scope") = None
    BY <2>1, NoneAssumption DEF Empty
  <2> QED
    BY <2>1, <2>2, Ungiven DEF KafkaOAuthUnasked, KafkaOAuthOptions
<1> HIDE DEF type, scopes
<1>4. CASE type \in PasswordTypes
  <2> DEFINE secrets == IF passwordRequired \/ replace # {} THEN {Password} ELSE {}
  <2>1. in \in PasswordInputs(type, o, passwordRequired, replace)
    BY <1>1, <1>4 DEF KafkaInputs
  <2>2. /\ replace \subseteq {Password} /\ ~AnyGiven(o, KafkaIdentity)
        /\ in = [NoInput EXCEPT !.type = type, !.username = Value(o, "username"), !.secrets = secrets]
    BY <2>1 DEF PasswordInputs
  <2>3. in.username = Value(o, "username") /\ in.secrets = secrets
    <3> HIDE DEF secrets
    <3> QED
      BY <2>2 DEF NoInput
  <2>4. Value(o, "client_certificate_file") = None
    BY <2>2, Ungiven DEF KafkaIdentity
  <2>5. type \notin {"none", "mtls", "oauth"}
    BY <1>4 DEF PasswordTypes
  <2> QED
    BY <1>2, <1>3, <1>4, <2>2, <2>3, <2>4, <2>5 DEF KafkaInputHas
<1>5. CASE type = "mtls"
  <2>1. in \in MtlsInputs(o, replace)
    BY <1>1, <1>5 DEF KafkaInputs, PasswordTypes
  <2>2. type \notin PasswordTypes \cup {"none", "oauth"}
    BY <1>5 DEF PasswordTypes
  <2> QED
    BY <1>2, <1>3, <1>5, <2>1, <2>2, KafkaMtlsInput DEF KafkaInputHas
<1>6. CASE type = "oauth"
  <2> DEFINE secrets == IF secretRequired \/ replace # {} THEN {ClientSecret} ELSE {}
             trust == Unsets(o, "kafka.auth.oauth.ca")
  <2>1. in \in OAuthInputs(o, scopes, secretRequired, replace)
    BY <1>1, <1>6 DEF KafkaInputs, PasswordTypes
  <2>2. /\ replace \subseteq {ClientSecret} /\ ~AnyGiven(o, KafkaIdentity \cup {"username"})
        /\ in = [NoInput EXCEPT !.type = "oauth", !.tokenUrl = Value(o, "oauth_token_url"),
                   !.clientId = Value(o, "oauth_client_id"), !.scopes = scopes,
                   !.ca = Value(o, "oauth_ca_file"), !.defaultTrust = trust, !.secrets = secrets]
    BY <2>1 DEF OAuthInputs
  <2>3. /\ in.tokenUrl = Value(o, "oauth_token_url") /\ in.clientId = Value(o, "oauth_client_id")
        /\ in.scopes = scopes /\ in.ca = Value(o, "oauth_ca_file")
        /\ in.defaultTrust = trust /\ in.secrets = secrets
    <3> HIDE DEF secrets, trust
    <3> QED
      BY <2>2 DEF NoInput
  <2>4. Value(o, "client_certificate_file") = None /\ Value(o, "username") = None
    BY <2>2, Ungiven DEF KafkaIdentity
  <2>5. type \notin PasswordTypes \cup {"none", "mtls"}
    BY <1>6 DEF PasswordTypes
  <2> QED
    BY <1>2, <1>6, <2>2, <2>3, <2>4, <2>5 DEF KafkaInputHas, scopes
<1>7. CASE type = "none"
  <2>1. replace = {} /\ ~AnyGiven(o, KafkaIdentity \cup {"username"})
    BY <1>1, <1>7 DEF KafkaInputs, PasswordTypes
  <2>2. Value(o, "client_certificate_file") = None /\ Value(o, "username") = None
    BY <2>1, Ungiven DEF KafkaIdentity
  <2>3. type \notin PasswordTypes \cup {"oauth", "mtls"}
    BY <1>7 DEF PasswordTypes
  <2> QED
    BY <1>2, <1>3, <1>7, <2>1, <2>2, <2>3 DEF KafkaInputHas
<1> QED
  BY <1>2, <1>4, <1>5, <1>6, <1>7 DEF KafkaTypes, PasswordTypes

\* The texts of an `auth` object that is made of others: all but those named.
NoText(auth, but) == \A t \in Texts \ but : auth[t] = None

LEMMA AuthTexts ==
  ASSUME NEW plan, plan.auth \in Auths(KafkaTypes) \/ plan.auth \in Auths(RegistryTypes),
         NEW service, NEW made
  PROVE  \A t \in Texts : AuthDocument(plan, service, made)[t] = plan.auth[t]
<1> DEFINE new == {r \in plan.retained : r.field \notin plan.staged}
                    \cup {Reference(service, field, made) : field \in plan.staged}
           a == AuthDocument(plan, service, made)
<1>1. a = [plan.auth EXCEPT !.refs = new]
  BY DEF AuthDocument
<1> HIDE DEF new, a
<1>2. \A t \in Texts : a[t] = plan.auth[t]
  BY <1>1 DEF Auths, Texts
<1> QED
  BY <1>2 DEF a

\* The references of an `auth` object with one secret: it is new when it was
\* `given`, else it is the one there was.
OneReference(new, old, service, field, made, given) ==
  new = IF given THEN {Reference(service, field, made)} ELSE Of(old, field)

LEMMA OneSecretRefs ==
  ASSUME NEW auth, auth \in Auths(KafkaTypes) \/ auth \in Auths(RegistryTypes),
         NEW refs, NEW field, NEW given \in BOOLEAN,
         NEW p \in OneSecret(auth, refs, field, given), NEW service, NEW made
  PROVE  /\ p.auth = auth
         /\ OneReference(AuthDocument(p, service, made).refs, refs, service, field, made, given)
<1>1. CASE given
  <2>1. p.auth = auth /\ p.retained = {} /\ p.staged = {field}
    BY <1>1 DEF OneSecret, Plan
  <2>2. AuthDocument(p, service, made).refs = {Reference(service, f, made) : f \in {field}}
    BY <2>1, AuthDocumentOf
  <2>3. {Reference(service, f, made) : f \in {field}} = {Reference(service, field, made)}
    OBVIOUS
  <2> QED
    BY <1>1, <2>1, <2>2, <2>3 DEF OneReference
<1>2. CASE ~given
  <2>1. p.auth = auth /\ p.retained = Of(refs, field) /\ p.staged = {}
    BY <1>2 DEF OneSecret, Plan
  <2>2. AuthDocument(p, service, made).refs = Of(refs, field)
    <3>1. AuthDocument(p, service, made).refs =
            {r \in p.retained : r.field \notin p.staged}
              \cup {Reference(service, f, made) : f \in p.staged}
      BY <2>1, AuthDocumentOf
    <3>2. {r \in Of(refs, field) : r.field \notin {}} = Of(refs, field)
      OBVIOUS
    <3>3. {Reference(service, f, made) : f \in {}} = {}
      OBVIOUS
    <3> QED
      BY <2>1, <3>1, <3>2, <3>3
  <2> QED
    BY <1>2, <2>1, <2>2 DEF OneReference
<1> QED
  BY <1>1, <1>2

\* The references to a private key, and to its password when it has one.
NewReferences(service, fields, made) == {Reference(service, f, made) : f \in fields}

\* What plan_authentication makes of an input, and _auth_document of the plan.
KafkaAuthHas(current, in, new, made) ==
  LET stored == IF current.type = "oauth" THEN current ELSE NoAuth IN
  /\ new.type = in.type
  /\ in.type = "none" => NoText(new, {}) /\ new.refs = {}
  /\ in.type \in PasswordTypes =>
       /\ NoText(new, {"username"})
       /\ new.username =
            Either(in.username, IF current.type \in PasswordTypes THEN current.username ELSE None)
       /\ OneReference(new.refs, current.refs, "kafka", Password, made, Password \in in.secrets)
  /\ in.type = "mtls" =>
       /\ NoText(new, {"certificate"})
       /\ IF in.certificate # None
          THEN /\ new.certificate = in.certificate
               /\ new.refs = NewReferences("kafka", in.secrets, made)
          ELSE /\ current.type = "mtls"
               /\ new.certificate = current.certificate /\ new.refs = current.refs
  /\ in.type = "oauth" =>
       /\ NoText(new, {"tokenUrl", "clientId", "scopes", "ca"})
       /\ new.tokenUrl = Or(in.tokenUrl, stored.tokenUrl)
       /\ new.clientId = Or(in.clientId, stored.clientId)
       /\ new.scopes = Either(Either(in.scopes, stored.scopes), Empty)
       /\ new.ca = IF in.defaultTrust THEN in.ca ELSE Either(in.ca, stored.ca)
       /\ OneReference(new.refs, current.refs, "kafka", ClientSecret, made, ClientSecret \in in.secrets)

LEMMA KafkaAuthIs ==
  ASSUME NEW current \in Auths(KafkaTypes), NEW in \in Inputs(KafkaTypes),
         NEW p \in KafkaPlans(current, in), NEW made
  PROVE  KafkaAuthHas(current, in, AuthDocument(p, "kafka", made), made)
<1> DEFINE new == AuthDocument(p, "kafka", made)
<1>0. in.type \in {"none", "mtls", "oauth"} \cup PasswordTypes
  BY DEF Inputs, KafkaTypes, PasswordTypes
<1>1. p.auth \in Auths(KafkaTypes) /\ p.auth.type = in.type
  BY KafkaPlansTyped DEF PlanOf
<1>2. /\ new.type = in.type /\ \A t \in Texts : new[t] = p.auth[t]
      /\ new.refs = {r \in p.retained : r.field \notin p.staged}
                       \cup {Reference("kafka", field, made) : field \in p.staged}
  BY <1>1, AuthTexts, AuthDocumentOf
<1>3. CASE in.type = "none"
  <2>1. p = Plan(NoAuth, current.refs, {}, {})
    BY <1>3 DEF KafkaPlans, PasswordTypes
  <2>2. p.auth = NoAuth /\ p.retained = {} /\ p.staged = {}
    BY <2>1 DEF Plan
  <2>3. new.refs = {}
    BY <1>2, <2>2
  <2>4. NoText(new, {})
    BY <1>2, <2>2 DEF NoText, Texts, NoAuth
  <2> QED
    BY <1>2, <1>3, <2>3, <2>4 DEF KafkaAuthHas, PasswordTypes
<1>4. CASE in.type \in PasswordTypes
  <2> DEFINE username == Either(in.username, IF current.type \in PasswordTypes
                                             THEN current.username ELSE None)
             auth == [NoAuth EXCEPT !.type = in.type, !.username = username]
             given == Password \in in.secrets
  <2>1. p \in KafkaPasswordPlans(current, in)
    BY <1>4 DEF KafkaPlans, PasswordTypes
  <2>2. p \in OneSecret(auth, current.refs, Password, given)
    BY <2>1 DEF KafkaPasswordPlans
  <2>3. username \in Values
    BY DEF Either, Inputs, Auths, Values
  <2> HIDE DEF username
  <2>8. auth \in Auths(KafkaTypes) /\ auth.username = username
    BY <2>3 DEF NoAuth, Auths, Inputs, Values
  <2>9. \A t \in Texts \ {"username"} : auth[t] = None
    <3>1. /\ auth.certificate = None /\ auth.tokenUrl = None /\ auth.clientId = None
          /\ auth.scopes = None /\ auth.ca = None /\ auth.routing = None
      BY DEF NoAuth
    <3> HIDE DEF auth
    <3> QED
      BY <3>1 DEF Texts
  <2>4. /\ auth \in Auths(KafkaTypes) /\ auth.username = username
        /\ \A t \in Texts \ {"username"} : auth[t] = None
    BY <2>8, <2>9
  <2>5. given \in BOOLEAN
    OBVIOUS
  <2> HIDE DEF auth, given
  <2>6. p.auth = auth /\ OneReference(new.refs, current.refs, "kafka", Password, made, given)
    BY <2>2, <2>4, <2>5, OneSecretRefs
  <2>7. NoText(new, {"username"}) /\ new.username = username
    BY <1>2, <2>4, <2>6 DEF NoText, Texts
  <2> QED
    BY <1>2, <1>4, <2>6, <2>7 DEF KafkaAuthHas, PasswordTypes, username, given
<1>5. CASE in.type = "mtls"
  <2>1. p \in KafkaMtlsPlans(current, in)
    BY <1>5 DEF KafkaPlans, PasswordTypes
  <2> DEFINE auth(certificate) == [NoAuth EXCEPT !.type = "mtls", !.certificate = certificate]
  <2>2. ASSUME NEW c, p.auth = auth(c)
        PROVE  NoText(new, {"certificate"}) /\ new.certificate = c
    BY <1>2, <2>2 DEF NoText, Texts, NoAuth
  <2>3. CASE in.certificate # None
    <3>1. p.auth = auth(in.certificate) /\ p.retained = {} /\ p.staged = in.secrets
      BY <2>1, <2>3 DEF KafkaMtlsPlans, Plan
    <3> HIDE DEF auth
    <3>2. new.refs = NewReferences("kafka", in.secrets, made)
      BY <1>2, <3>1 DEF NewReferences
    <3> QED
      BY <1>2, <1>5, <2>2, <2>3, <3>1, <3>2 DEF KafkaAuthHas, PasswordTypes
  <2>4. CASE in.certificate = None
    <3>1. /\ current.type = "mtls"
          /\ p.auth = auth(current.certificate) /\ p.retained = current.refs /\ p.staged = {}
      BY <2>1, <2>4 DEF KafkaMtlsPlans, Plan
    <3> HIDE DEF auth
    <3>2. new.refs = current.refs
      BY <1>2, <3>1
    <3> QED
      BY <1>2, <1>5, <2>2, <2>4, <3>1, <3>2 DEF KafkaAuthHas, PasswordTypes
  <2> QED
    BY <2>3, <2>4
<1>6. CASE in.type = "oauth"
  <2> DEFINE stored == IF current.type = "oauth" THEN current ELSE NoAuth
             tokenUrl == Or(in.tokenUrl, stored.tokenUrl)
             clientId == Or(in.clientId, stored.clientId)
             scopes == Either(Either(in.scopes, stored.scopes), Empty)
             ca == IF in.defaultTrust THEN in.ca ELSE Either(in.ca, stored.ca)
             auth == [NoAuth EXCEPT !.type = "oauth", !.tokenUrl = tokenUrl,
                        !.clientId = clientId, !.scopes = scopes, !.ca = ca]
             given == ClientSecret \in in.secrets
  <2>1. p \in KafkaOAuthPlans(current, in)
    BY <1>6 DEF KafkaPlans, PasswordTypes
  <2>2. p \in OneSecret(auth, current.refs, ClientSecret, given)
    BY <2>1 DEF KafkaOAuthPlans
  <2>3. given \in BOOLEAN /\ stored \in Auths(KafkaTypes)
    BY NothingTyped
  <2> HIDE DEF stored
  <2>4. tokenUrl \in Values /\ clientId \in Values /\ scopes \in Values /\ ca \in Values
    BY <2>3 DEF Auths, Inputs, Or, Either, Values, Empty
  <2> HIDE DEF tokenUrl, clientId, scopes, ca
  <2>8. /\ auth \in Auths(KafkaTypes) /\ auth.tokenUrl = tokenUrl /\ auth.clientId = clientId
        /\ auth.scopes = scopes /\ auth.ca = ca
    BY <2>4 DEF NoAuth, Auths, Values, KafkaTypes
  <2>9. \A t \in Texts \ {"tokenUrl", "clientId", "scopes", "ca"} : auth[t] = None
    <3>1. auth.username = None /\ auth.certificate = None /\ auth.routing = None
      BY DEF NoAuth
    <3> HIDE DEF auth
    <3> QED
      BY <3>1 DEF Texts
  <2>5. /\ auth \in Auths(KafkaTypes) /\ auth.tokenUrl = tokenUrl /\ auth.clientId = clientId
        /\ auth.scopes = scopes /\ auth.ca = ca
        /\ \A t \in Texts \ {"tokenUrl", "clientId", "scopes", "ca"} : auth[t] = None
    BY <2>8, <2>9
  <2> HIDE DEF auth, given
  <2>6. p.auth = auth /\ OneReference(new.refs, current.refs, "kafka", ClientSecret, made, given)
    BY <2>2, <2>3, <2>5, OneSecretRefs
  <2>7. /\ NoText(new, {"tokenUrl", "clientId", "scopes", "ca"})
        /\ new.tokenUrl = tokenUrl /\ new.clientId = clientId
        /\ new.scopes = scopes /\ new.ca = ca
    BY <1>2, <2>5, <2>6 DEF NoText, Texts
  <2> QED
    BY <1>2, <1>6, <2>6, <2>7
       DEF KafkaAuthHas, PasswordTypes, stored, tokenUrl, clientId, scopes, ca, given
<1> QED
  BY <1>0, <1>3, <1>4, <1>5, <1>6

\* What the references are for.
HasFields(refs, fields) == \A r \in refs : r.field \in fields

LEMMA FieldsOf ==
  ASSUME NEW old, NEW new, NEW fields, HasFields(old, fields), HasFields(new, fields),
         NEW f, f \notin fields
  PROVE  Of(old, f) = Of(new, f)
<1>1. Of(old, f) = {} /\ Of(new, f) = {}
  BY DEF Of, HasFields
<1> QED
  BY <1>1

LEMMA OneReferenceHas ==
  ASSUME NEW new, NEW old, NEW service, NEW field, NEW made, NEW given,
         OneReference(new, old, service, field, made, given)
  PROVE  /\ HasFields(new, {field})
         /\ (~given /\ HasFields(old, {field})) => new = old
<1> DEFINE one == Reference(service, field, made)
<1>1. one.field = field
  BY DEF Reference
<1>2. new = IF given THEN {one} ELSE Of(old, field)
  BY DEF OneReference
<1> HIDE DEF one
<1> QED
  BY <1>1, <1>2 DEF HasFields, Of

LEMMA OneReferenceIsNew ==
  ASSUME NEW new, NEW old, NEW service, NEW field, NEW made, \A r \in old : r.made # made,
         OneReference(new, old, service, field, made, TRUE)
  PROVE  Of(new, field) # {} /\ Of(new, field) \cap Of(old, field) = {}
<1> DEFINE one == Reference(service, field, made)
<1>1. one.field = field /\ one.made = made
  BY DEF Reference
<1>2. new = {one}
  BY DEF OneReference
<1> HIDE DEF one
<1> QED
  BY <1>1, <1>2 DEF Of

LEMMA KeyReferencesHave ==
  ASSUME NEW old, NEW service, NEW made, NEW fields \in SUBSET {PrivateKey, KeyPassword},
         NEW new, new = NewReferences(service, fields, made)
  PROVE  /\ HasFields(new, {PrivateKey, KeyPassword})
         /\ (PrivateKey \in fields /\ \A r \in old : r.made # made) =>
              Of(new, PrivateKey) # {} /\ Of(new, PrivateKey) \cap Of(old, PrivateKey) = {}
<1>1. \A f : Reference(service, f, made).field = f /\ Reference(service, f, made).made = made
  BY DEF Reference
<1>2. \A r \in new : r.field \in fields /\ r.made = made
  BY <1>1 DEF NewReferences
<1>3. HasFields(new, {PrivateKey, KeyPassword})
  BY <1>2 DEF HasFields
<1>4. ASSUME PrivateKey \in fields, \A r \in old : r.made # made
      PROVE  Of(new, PrivateKey) # {} /\ Of(new, PrivateKey) \cap Of(old, PrivateKey) = {}
  <2>1. Reference(service, PrivateKey, made) \in Of(new, PrivateKey)
    BY <1>1, <1>4 DEF Of, NewReferences
  <2>2. \A r \in Of(new, PrivateKey) : r \notin Of(old, PrivateKey)
    BY <1>2, <1>4 DEF Of
  <2> QED
    BY <2>1, <2>2
<1> QED
  BY <1>3, <1>4

\* What a document that fits the schema has stored.
LEMMA KafkaStored ==
  ASSUME NEW k, KafkaSchema(k)
  PROVE  LET auth == k.auth IN
         /\ auth.type = "none" => NoText(auth, {}) /\ HasFields(auth.refs, {})
         /\ auth.type \in PasswordTypes =>
              NoText(auth, {"username"}) /\ HasFields(auth.refs, {Password})
         /\ auth.type = "mtls" =>
              NoText(auth, {"certificate"}) /\ HasFields(auth.refs, {PrivateKey, KeyPassword})
         /\ auth.type = "oauth" =>
              /\ NoText(auth, {"tokenUrl", "clientId", "scopes", "ca"}) /\ auth.scopes # None
              /\ HasFields(auth.refs, {ClientSecret})
<1> DEFINE auth == k.auth
<1>1. \/ auth.type = "none" /\ Shape(auth, {}, {}, {}, {})
      \/ auth.type \in PasswordTypes /\ Shape(auth, {"username"}, {}, {Password}, {})
      \/ auth.type = "mtls" /\ Shape(auth, {"certificate"}, {}, {PrivateKey}, {KeyPassword})
      \/ auth.type = "oauth" /\ Shape(auth, OAuthTexts, {"ca"}, {ClientSecret}, {})
  BY DEF KafkaSchema
<1> HIDE DEF auth
<1>2. Shape(auth, {}, {}, {}, {}) => NoText(auth, {}) /\ HasFields(auth.refs, {})
  BY DEF Shape, NoText, HasFields
<1>3. Shape(auth, {"username"}, {}, {Password}, {}) =>
        NoText(auth, {"username"}) /\ HasFields(auth.refs, {Password})
  BY DEF Shape, NoText, HasFields
<1>4. Shape(auth, {"certificate"}, {}, {PrivateKey}, {KeyPassword}) =>
        NoText(auth, {"certificate"}) /\ HasFields(auth.refs, {PrivateKey, KeyPassword})
  BY DEF Shape, NoText, HasFields
<1>5. Shape(auth, OAuthTexts, {"ca"}, {ClientSecret}, {}) =>
        /\ NoText(auth, {"tokenUrl", "clientId", "scopes", "ca"}) /\ auth.scopes # None
        /\ HasFields(auth.refs, {ClientSecret})
  BY DEF Shape, NoText, HasFields, OAuthTexts
<1> QED
  BY <1>1, <1>2, <1>3, <1>4, <1>5 DEF PasswordTypes, auth

\* What the request names, and when an edit of the same kind of authentication
\* keeps what the request does not name.
Asks(o, names, f) == names[f] \cap Named(o) # {}

LEMMA NamesIt ==
  ASSUME NEW o, NEW names, NEW f, NEW name \in names[f], Given(o, name) \/ Unsets(o, name)
  PROVE  Asks(o, names, f)
BY DEF Asks, Named, Given, Unsets

LEMMA KafkaAsks ==
  ASSUME NEW o
  PROVE  /\ Value(o, "username") # None => Asks(o, KafkaNames, "username")
         /\ Given(o, "client_certificate_file") => Asks(o, KafkaNames, "certificate")
         /\ Value(o, "oauth_token_url") # None => Asks(o, KafkaNames, "tokenUrl")
         /\ Value(o, "oauth_client_id") # None => Asks(o, KafkaNames, "clientId")
         /\ Value(o, "oauth_scope") # None \/ Unsets(o, "kafka.auth.oauth.scopes") =>
              Asks(o, KafkaNames, "scopes")
         /\ Value(o, "oauth_ca_file") # None \/ Unsets(o, "kafka.auth.oauth.ca") =>
              Asks(o, KafkaNames, "ca")
         /\ Value(o, "auth_type") # None => Asks(o, KafkaNames, "type")
BY NamesIt DEF KafkaNames, Value

LEMMA SameKindKept ==
  ASSUME NEW o, NEW service, NEW old, NEW new, NEW names,
         DOMAIN names = Texts \cup {"type"},
         old.type # new.type => Asks(o, names, "type"),
         KindOf(old.type) = KindOf(new.type) =>
           /\ \A f \in Texts : old[f] # new[f] =>
                \/ Asks(o, names, f)
                \/ f = "certificate" /\ PrivateKey \in Replaces(o, service)
           /\ \A f \in SecretFields : Of(old.refs, f) # Of(new.refs, f) =>
                \/ f \in Replaces(o, service)
                \/ /\ f \in {PrivateKey, KeyPassword}
                   /\ Asks(o, names, "certificate") \/ PrivateKey \in Replaces(o, service)
  PROVE  KeepsAuth(o, service, old, new, names)
<1>1. CASE KindOf(old.type) # KindOf(new.type)
  <2>1. Asks(o, names, "type")
    BY <1>1
  <2> QED
    BY <1>1, <2>1 DEF KeepsAuth, Asks
<1>2. CASE KindOf(old.type) = KindOf(new.type)
  BY <1>2 DEF KeepsAuth, Asks
<1> QED
  BY <1>1, <1>2

LEMMA KafkaKept ==
  ASSUME NEW connection, KafkaSchema(connection), NEW old \in Auths(KafkaTypes), old = connection.auth,
         NEW o, NEW in \in Inputs(KafkaTypes), in.type = Either(Value(o, "auth_type"), old.type),
         KafkaInputHas(o, old, in), NEW new, NEW made, KafkaAuthHas(old, in, new, made)
  PROVE  KeepsAuth(o, "kafka", old, new, KafkaNames)
<1> DEFINE replace == Replaces(o, "kafka")
           kept(fields) == \A f \in SecretFields : Of(old.refs, f) # Of(new.refs, f) => f \in fields
<1>1. /\ old.type # new.type => Asks(o, KafkaNames, "type")
      /\ new.type = in.type
      /\ DOMAIN KafkaNames = Texts \cup {"type"}
  BY KafkaAsks DEF KafkaAuthHas, Either, KafkaNames, Texts
<1>2. /\ old.type \in {"none", "mtls", "oauth"} \cup PasswordTypes
      /\ in.type \in {"none", "mtls", "oauth"} \cup PasswordTypes
  BY DEF Auths, Inputs, KafkaTypes, PasswordTypes
<1> USE DEF NoText, Texts
<1>3. ASSUME old.type = "none", in.type = "none"
      PROVE  /\ \A f \in Texts : old[f] = new[f]
             /\ kept({})
  BY <1>3, KafkaStored DEF KafkaAuthHas, HasFields, Of
<1>4. ASSUME old.type \in PasswordTypes, in.type \in PasswordTypes
      PROVE  /\ \A f \in Texts : old[f] # new[f] => Asks(o, KafkaNames, f)
             /\ kept(replace)
  <2>1. /\ NoText(old, {"username"}) /\ HasFields(old.refs, {Password})
        /\ NoText(new, {"username"}) /\ new.username = Either(Value(o, "username"), old.username)
        /\ OneReference(new.refs, old.refs, "kafka", Password, made, Password \in in.secrets)
        /\ Password \in in.secrets <=> replace # {}
        /\ replace \subseteq {Password}
    <3>1. NoText(old, {"username"}) /\ HasFields(old.refs, {Password})
      BY <1>4, KafkaStored
    <3>2. /\ replace \subseteq {Password} /\ in.username = Value(o, "username")
          /\ Password \in in.secrets <=> replace # {}
      BY <1>4 DEF KafkaInputHas
    <3>3. /\ NoText(new, {"username"}) /\ new.username = Either(in.username, old.username)
          /\ OneReference(new.refs, old.refs, "kafka", Password, made, Password \in in.secrets)
      BY <1>4 DEF KafkaAuthHas
    <3> QED
      BY <3>1, <3>2, <3>3
  <2>2. old.username # new.username => Asks(o, KafkaNames, "username")
    BY <2>1, KafkaAsks DEF Either
  <2>3. HasFields(new.refs, {Password}) /\ (Password \notin in.secrets => new.refs = old.refs)
    <3> DEFINE was == old.refs
               is == new.refs
               given == Password \in in.secrets
    <3>1. OneReference(is, was, "kafka", Password, made, given) /\ HasFields(was, {Password})
      BY <2>1
    <3> HIDE DEF was, is, given
    <3>2. HasFields(is, {Password}) /\ (~given => is = was)
      BY <3>1, OneReferenceHas
    <3> QED
      BY <3>2 DEF was, is, given
  <2>4. kept({Password}) /\ (replace = {} => kept({}))
    BY <2>1, <2>3, FieldsOf
  <2> QED
    BY <2>1, <2>2, <2>4
<1>5. ASSUME old.type = "mtls", in.type = "mtls"
      PROVE  LET newIdentity == Asks(o, KafkaNames, "certificate") \/ PrivateKey \in replace IN
             /\ \A f \in Texts : old[f] # new[f] => f = "certificate" /\ newIdentity
             /\ kept(IF newIdentity THEN {PrivateKey, KeyPassword} ELSE {})
  <2>1. /\ NoText(old, {"certificate"}) /\ HasFields(old.refs, {PrivateKey, KeyPassword})
        /\ NoText(new, {"certificate"})
    BY <1>5, KafkaStored DEF KafkaAuthHas
  <2>2. CASE in.certificate = None
    <3>1. new.certificate = old.certificate /\ new.refs = old.refs
      BY <1>5, <2>2 DEF KafkaAuthHas
    <3> QED
      BY <2>1, <3>1
  <2>3. CASE in.certificate # None
    <3>1. /\ Given(o, "client_certificate_file") \/ PrivateKey \in replace
          /\ in.secrets \in SUBSET {PrivateKey, KeyPassword}
          /\ new.refs = NewReferences("kafka", in.secrets, made)
      BY <1>5, <2>3 DEF KafkaInputHas, KafkaAuthHas
    <3>2. HasFields(new.refs, {PrivateKey, KeyPassword})
      BY <3>1, KeyReferencesHave
    <3>3. kept({PrivateKey, KeyPassword})
      BY <2>1, <3>2, FieldsOf
    <3>4. Asks(o, KafkaNames, "certificate") \/ PrivateKey \in replace
      BY <3>1, KafkaAsks
    <3> QED
      BY <2>1, <3>3, <3>4
  <2> QED
    BY <2>2, <2>3
<1>6. ASSUME old.type = "oauth", in.type = "oauth"
      PROVE  /\ \A f \in Texts : old[f] # new[f] => Asks(o, KafkaNames, f)
             /\ kept(replace)
  <2>1. /\ NoText(old, {"tokenUrl", "clientId", "scopes", "ca"}) /\ old.scopes # None
        /\ HasFields(old.refs, {ClientSecret})
    BY <1>6, KafkaStored
  <2>2. /\ NoText(new, {"tokenUrl", "clientId", "scopes", "ca"})
        /\ new.tokenUrl = Or(in.tokenUrl, old.tokenUrl)
        /\ new.clientId = Or(in.clientId, old.clientId)
        /\ new.scopes = Either(Either(in.scopes, old.scopes), Empty)
        /\ new.ca = IF in.defaultTrust THEN in.ca ELSE Either(in.ca, old.ca)
        /\ OneReference(new.refs, old.refs, "kafka", ClientSecret, made, ClientSecret \in in.secrets)
    BY <1>6 DEF KafkaAuthHas
  <2>3. /\ replace \subseteq {ClientSecret} /\ (ClientSecret \in in.secrets <=> replace # {})
        /\ in.tokenUrl = Value(o, "oauth_token_url") /\ in.clientId = Value(o, "oauth_client_id")
        /\ in.scopes = IF Unsets(o, "kafka.auth.oauth.scopes") THEN Empty ELSE Value(o, "oauth_scope")
        /\ in.ca = Value(o, "oauth_ca_file") /\ in.defaultTrust = Unsets(o, "kafka.auth.oauth.ca")
    BY <1>6 DEF KafkaInputHas, PasswordTypes
  <2>4. /\ old.tokenUrl # new.tokenUrl => Asks(o, KafkaNames, "tokenUrl")
        /\ old.clientId # new.clientId => Asks(o, KafkaNames, "clientId")
        /\ old.scopes # new.scopes => Asks(o, KafkaNames, "scopes")
        /\ old.ca # new.ca => Asks(o, KafkaNames, "ca")
    BY <2>1, <2>2, <2>3, KafkaAsks DEF Either, Or
  <2>5. HasFields(new.refs, {ClientSecret}) /\ (ClientSecret \notin in.secrets => new.refs = old.refs)
    <3> DEFINE was == old.refs
               is == new.refs
               given == ClientSecret \in in.secrets
    <3>1. OneReference(is, was, "kafka", ClientSecret, made, given) /\ HasFields(was, {ClientSecret})
      BY <2>1, <2>2
    <3> HIDE DEF was, is, given
    <3>2. HasFields(is, {ClientSecret}) /\ (~given => is = was)
      BY <3>1, OneReferenceHas
    <3> QED
      BY <3>2 DEF was, is, given
  <2>6. kept({ClientSecret}) /\ (replace = {} => kept({}))
    BY <2>1, <2>3, <2>5, FieldsOf
  <2> QED
    BY <2>1, <2>2, <2>3, <2>4, <2>6
<1>7. KindOf(old.type) = KindOf(new.type) =>
        \/ old.type = in.type
        \/ old.type \in PasswordTypes /\ in.type \in PasswordTypes
  BY <1>1, <1>2 DEF KindOf, PasswordTypes
<1>8. KindOf(old.type) = KindOf(new.type) =>
        /\ \A f \in Texts : old[f] # new[f] =>
             \/ Asks(o, KafkaNames, f)
             \/ f = "certificate" /\ PrivateKey \in replace
        /\ \A f \in SecretFields : Of(old.refs, f) # Of(new.refs, f) =>
             \/ f \in replace
             \/ /\ f \in {PrivateKey, KeyPassword}
                /\ Asks(o, KafkaNames, "certificate") \/ PrivateKey \in replace
  BY <1>2, <1>3, <1>4, <1>5, <1>6, <1>7
<1> QED
  BY <1>1, <1>8, SameKindKept

LEMMA ReplacesFields ==
  ASSUME NEW o, TypedOptions(o)
  PROVE  /\ Replaces(o, "kafka") \subseteq {Password, PrivateKey, KeyPassword, ClientSecret}
         /\ Replaces(o, "registry") \subseteq SecretFields
BY DEF TypedOptions, SecretTable, Replaces

LEMMA KafkaDone ==
  ASSUME NEW old \in Auths(KafkaTypes), NEW o, TypedOptions(o), ~Contradicts(o),
         NEW in \in Inputs(KafkaTypes), in.type = Either(Value(o, "auth_type"), old.type),
         KafkaInputHas(o, old, in), NEW new, NEW made, KafkaAuthHas(old, in, new, made),
         \A r \in old.refs : r.made # made
  PROVE  KafkaAuthDone(o, old, new)
<1> DEFINE replace == Replaces(o, "kafka")
           was == old.refs
           is == new.refs
<1>1. new.type = in.type /\ new.type = Either(Value(o, "auth_type"), new.type)
  BY DEF KafkaAuthHas, Either
<1>2. in.type \in {"none", "mtls", "oauth"} \cup PasswordTypes
  BY DEF Inputs, KafkaTypes, PasswordTypes
<1>3. \A r \in was : r.made # made
  OBVIOUS
<1>4. /\ Unsets(o, "kafka.auth.oauth.scopes") => Value(o, "oauth_scope") = None
      /\ Unsets(o, "kafka.auth.oauth.ca") => Value(o, "oauth_ca_file") = None
  BY DEF Contradicts, Value
<1> HIDE DEF was, is
<1> USE DEF SetsText
<1>5. in.type # "oauth" => KafkaOAuthUnasked(o)
  BY DEF KafkaInputHas
<1>6. in.type # "mtls" => Value(o, "client_certificate_file") = None
  BY DEF KafkaInputHas
<1>7. CASE in.type = "none"
  <2>1. replace = {} /\ Value(o, "username") = None
    BY <1>7 DEF KafkaInputHas
  <2> QED
    BY <1>1, <1>5, <1>6, <1>7, <2>1 DEF KafkaAuthDone, KafkaOAuthUnasked
<1>8. CASE in.type \in PasswordTypes
  <2>1. /\ replace \subseteq {Password} /\ in.username = Value(o, "username")
        /\ replace # {} => Password \in in.secrets
    BY <1>8 DEF KafkaInputHas
  <2> DEFINE given == Password \in in.secrets
  <2>2. /\ OneReference(is, was, "kafka", Password, made, given)
        /\ Value(o, "username") # None => new.username = Value(o, "username")
    BY <1>8, <2>1 DEF KafkaAuthHas, is, was, Either
  <2>3. replace # {} => given
    BY <2>1
  <2> HIDE DEF given
  <2>4. given => Of(is, Password) # {} /\ Of(is, Password) \cap Of(was, Password) = {}
    <3>1. given => OneReference(is, was, "kafka", Password, made, TRUE)
      BY <2>2 DEF OneReference
    <3> QED
      BY <1>3, <3>1, OneReferenceIsNew
  <2>5. \A f \in replace : IsReplaced(old, new, f)
    BY <2>1, <2>3, <2>4 DEF IsReplaced, is, was
  <2>6. in.type # "oauth"
    BY <1>8 DEF PasswordTypes
  <2>7. in.type # "mtls"
    BY <1>8 DEF PasswordTypes
  <2> QED
    BY <1>1, <1>5, <1>6, <1>8, <2>2, <2>5, <2>6, <2>7 DEF KafkaAuthDone, KafkaOAuthUnasked
<1>9. CASE in.type = "mtls"
  <2>1. Password \notin replace /\ replace \subseteq {Password, PrivateKey, KeyPassword, ClientSecret}
    BY <1>9, ReplacesFields DEF KafkaInputHas
  <2>2. CASE in.certificate = None
    <3>1. /\ Value(o, "client_certificate_file") = None /\ PrivateKey \notin replace
      BY <1>9, <2>2 DEF KafkaInputHas
    <3>2. \A f \in replace \ {KeyPassword} : f = ClientSecret
      BY <2>1, <3>1
    <3> QED
      BY <1>1, <1>5, <1>9, <3>1, <3>2 DEF KafkaAuthDone, KafkaOAuthUnasked
  <2>3. CASE in.certificate # None
    <3> DEFINE fields == in.secrets
    <3>1. /\ in.certificate = Either(Value(o, "client_certificate_file"), o.by)
          /\ PrivateKey \in fields /\ fields \in SUBSET {PrivateKey, KeyPassword}
      BY <1>9, <2>3 DEF KafkaInputHas
    <3>2. new.certificate = in.certificate /\ is = NewReferences("kafka", fields, made)
      BY <1>9, <2>3 DEF KafkaAuthHas, is
    <3> HIDE DEF fields
    <3>3. Of(is, PrivateKey) # {} /\ Of(is, PrivateKey) \cap Of(was, PrivateKey) = {}
      BY <1>3, <3>1, <3>2, KeyReferencesHave
    <3>4. \A f \in replace \ {KeyPassword} : IsReplaced(old, new, f) \/ f = ClientSecret
      BY <2>1, <3>3 DEF IsReplaced, is, was
    <3>5. SetsText(o, new, "certificate", "client_certificate_file")
      BY <3>1, <3>2 DEF Either
    <3> QED
      BY <1>1, <1>5, <1>9, <3>4, <3>5 DEF KafkaAuthDone, KafkaOAuthUnasked
  <2> QED
    BY <2>2, <2>3
<1>10. CASE in.type = "oauth"
  <2>1. /\ replace \subseteq {ClientSecret} /\ Value(o, "username") = None
        /\ in.tokenUrl = Value(o, "oauth_token_url") /\ in.clientId = Value(o, "oauth_client_id")
        /\ in.scopes = IF Unsets(o, "kafka.auth.oauth.scopes") THEN Empty ELSE Value(o, "oauth_scope")
        /\ in.ca = Value(o, "oauth_ca_file") /\ in.defaultTrust = Unsets(o, "kafka.auth.oauth.ca")
        /\ replace # {} => ClientSecret \in in.secrets
    BY <1>10 DEF KafkaInputHas, PasswordTypes
  <2> DEFINE stored == IF old.type = "oauth" THEN old ELSE NoAuth
             given == ClientSecret \in in.secrets
  <2>2. /\ new.tokenUrl = Or(in.tokenUrl, stored.tokenUrl)
        /\ new.clientId = Or(in.clientId, stored.clientId)
        /\ new.scopes = Either(Either(in.scopes, stored.scopes), Empty)
        /\ new.ca = IF in.defaultTrust THEN in.ca ELSE Either(in.ca, stored.ca)
        /\ OneReference(is, was, "kafka", ClientSecret, made, given)
    BY <1>10 DEF KafkaAuthHas, is, was
  <2>3. replace # {} => given
    BY <2>1
  <2> HIDE DEF stored, given
  <2>4. given => Of(is, ClientSecret) # {} /\ Of(is, ClientSecret) \cap Of(was, ClientSecret) = {}
    <3>1. given => OneReference(is, was, "kafka", ClientSecret, made, TRUE)
      BY <2>2 DEF OneReference
    <3> QED
      BY <1>3, <3>1, OneReferenceIsNew
  <2>5. \A f \in replace : IsReplaced(old, new, f)
    BY <2>1, <2>3, <2>4 DEF IsReplaced, is, was
  <2>6. /\ SetsText(o, new, "tokenUrl", "oauth_token_url")
        /\ SetsText(o, new, "clientId", "oauth_client_id")
    BY <2>1, <2>2 DEF Or
  <2>7. /\ SetsText(o, new, "scopes", "oauth_scope")
        /\ Unsets(o, "kafka.auth.oauth.scopes") => new.scopes = Empty
    BY <1>4, <2>1, <2>2, NoneAssumption DEF Either, Empty
  <2>8. /\ SetsText(o, new, "ca", "oauth_ca_file")
        /\ Unsets(o, "kafka.auth.oauth.ca") => new.ca = None
    BY <1>4, <2>1, <2>2 DEF Either
  <2> QED
    BY <1>1, <1>6, <1>10, <2>1, <2>5, <2>6, <2>7, <2>8 DEF KafkaAuthDone
<1> QED
  BY <1>2, <1>7, <1>8, <1>9, <1>10

-----------------------------------------------------------------------------
(* What an edit makes of the authentication with the Registry *)

\* The values of an edit: the options, merged with what is stored.
LEMMA RegistryEditValuesAre ==
  ASSUME NEW registry \in Registries \cup {None}, NEW o, TypedOptions(o), NEW type \in RegistryTypes
  PROVE  LET v == RegistryEditValues(o, type, registry)
             stored == IF type = AuthOf(registry).type THEN AuthOf(registry) ELSE NoAuth IN
         /\ v.username = Or(Value(o, "registry_username"), stored.username)
         /\ v.tokenUrl = Or(Value(o, "registry_oauth_token_url"), stored.tokenUrl)
         /\ v.clientId = Or(Value(o, "registry_oauth_client_id"), stored.clientId)
         /\ v.scopes = IF Unsets(o, "registry.auth.oauth.scopes") THEN Empty
                       ELSE Either(Value(o, "registry_oauth_scope"), Either(stored.scopes, Empty))
         /\ v.ca = Replaced(Value(o, "registry_oauth_ca_file"),
                            Unsets(o, "registry.auth.oauth.ca"), stored.ca)
         /\ v.routing = IF Unsets(o, "registry.auth.oauth.routing") THEN None
                        ELSE Or(Value(o, "registry_oauth_routing"), stored.routing)
         /\ v.secrets = FileSecrets(o)
<1> DEFINE stored == IF type = AuthOf(registry).type THEN AuthOf(registry) ELSE NoAuth
           username == Or(Value(o, "registry_username"), stored.username)
           tlsCa == Replaced(Value(o, "registry_ca_file"), Unsets(o, "registry.tls.ca"),
                             IF registry = None THEN None ELSE registry.ca)
           certificate == Either(Value(o, "registry_client_certificate_file"), stored.certificate)
           tokenUrl == Or(Value(o, "registry_oauth_token_url"), stored.tokenUrl)
           clientId == Or(Value(o, "registry_oauth_client_id"), stored.clientId)
           scopes == IF Unsets(o, "registry.auth.oauth.scopes") THEN Empty
                     ELSE Either(Value(o, "registry_oauth_scope"), Either(stored.scopes, Empty))
           ca == Replaced(Value(o, "registry_oauth_ca_file"),
                          Unsets(o, "registry.auth.oauth.ca"), stored.ca)
           routing == IF Unsets(o, "registry.auth.oauth.routing") THEN None
                      ELSE Or(Value(o, "registry_oauth_routing"), stored.routing)
           secrets == FileSecrets(o)
           v == RegistryEditValues(o, type, registry)
<1>1. v = [NoInput EXCEPT !.type = type, !.username = username, !.tlsCa = tlsCa,
             !.certificate = certificate, !.tokenUrl = tokenUrl, !.clientId = clientId,
             !.scopes = scopes, !.ca = ca, !.routing = routing, !.secrets = secrets]
  BY DEF RegistryEditValues
<1> HIDE DEF username, tlsCa, certificate, tokenUrl, clientId, scopes, ca, routing, secrets, v
<1>2. /\ v.username = username /\ v.tokenUrl = tokenUrl /\ v.clientId = clientId
      /\ v.scopes = scopes /\ v.ca = ca /\ v.routing = routing /\ v.secrets = secrets
  BY <1>1 DEF NoInput
<1> QED
  BY <1>2 DEF v, username, tokenUrl, clientId, scopes, ca, routing, secrets

\* What _RegistryValues accepts, and what it adds to the values.
LEMMA RegistryInputsHave ==
  ASSUME NEW v \in Inputs(RegistryTypes), NEW url, NEW required, NEW replace,
         NEW in \in RegistryInputs(v, url, required, replace)
  PROVE  /\ v.type # "oauth" => ~HasOAuth(v)
         /\ v.type # "mtls" => v.certificate = None /\ v.secrets = {}
         /\ in = None => ~RegistryRequested(v, replace)
         /\ in # None =>
              /\ url # None /\ replace \subseteq Replaceable(v.type)
              /\ v.type # "basic" => v.username = None
              /\ (v.type = "mtls" /\ replace # {}) => v.secrets # {}
              /\ in.type = v.type /\ in.tlsCa = v.tlsCa
              /\ \A t \in Texts \ {"scopes"} : in[t] = v[t]
              /\ v.type # "none" =>
                   /\ in.scopes = v.scopes
                   /\ in.secrets = v.secrets \cup Prompted(v.type, required, replace)
<1> DEFINE secrets == v.secrets \cup Prompted(v.type, required, replace)
<1>1. /\ v.type # "oauth" => ~HasOAuth(v)
      /\ v.type # "mtls" => v.certificate = None /\ v.secrets = {}
      /\ \/ in = None /\ ~RegistryRequested(v, replace)
         \/ /\ url # None /\ replace \subseteq Replaceable(v.type)
            /\ v.type # "basic" => v.username = None
            /\ (v.type = "mtls" /\ replace # {}) => v.secrets # {}
            /\ \/ v.type = "none" /\ in = [v EXCEPT !.scopes = None]
               \/ v.type # "none" /\ in = [v EXCEPT !.secrets = @ \cup Prompted(v.type, required, replace)]
  BY DEF RegistryInputs
<1>2. CASE v.type = "none" /\ in = [v EXCEPT !.scopes = None]
  <2>1. /\ in.type = v.type /\ in.tlsCa = v.tlsCa
        /\ \A t \in Texts \ {"scopes"} : in[t] = v[t]
    BY <1>2 DEF Inputs, Texts
  <2>2. in # None
    <3>1. in \in Inputs(RegistryTypes)
      BY <1>2 DEF Inputs, Values
    <3> QED
      BY <3>1, InputIsSomething
  <2> QED
    BY <1>1, <1>2, <2>1, <2>2 DEF RegistryRequested
<1>3. CASE v.type # "none" /\ in = [v EXCEPT !.secrets = secrets]
  <2> HIDE DEF secrets
  <2>1. /\ in.type = v.type /\ in.tlsCa = v.tlsCa /\ in.scopes = v.scopes /\ in.secrets = secrets
        /\ \A t \in Texts : in[t] = v[t]
    BY <1>3 DEF Inputs, Texts
  <2>2. RegistryRequested(v, replace)
    BY <1>3 DEF RegistryRequested
  <2>3. in # None
    BY <2>2, RegistryInputsTyped
  <2> QED
    BY <1>1, <1>3, <2>1, <2>2, <2>3 DEF secrets
<1>4. in = [v EXCEPT !.secrets = @ \cup Prompted(v.type, required, replace)] =>
        in = [v EXCEPT !.secrets = secrets]
  BY DEF Inputs
<1> QED
  BY <1>1, <1>2, <1>3, <1>4

RegistryOAuthUnasked(o) ==
  /\ Value(o, "registry_oauth_token_url") = None /\ Value(o, "registry_oauth_client_id") = None
  /\ Value(o, "registry_oauth_scope") = None /\ Value(o, "registry_oauth_ca_file") = None
  /\ Value(o, "registry_oauth_routing") = None
  /\ ~Unsets(o, "registry.auth.oauth.scopes") /\ ~Unsets(o, "registry.auth.oauth.ca")
  /\ ~Unsets(o, "registry.auth.oauth.routing")

\* What an input of an edit holds, for the type it is made for.
RegistryInputHas(o, current, in) ==
  LET replace == Replaces(o, "registry")
      stored  == IF in.type = current.type THEN current ELSE NoAuth IN
  /\ in.type # "oauth" =>
       /\ RegistryOAuthUnasked(o)
       /\ in.tokenUrl = None /\ in.clientId = None /\ in.ca = None /\ in.routing = None
  /\ in.type # "mtls" => Value(o, "registry_client_certificate_file") = None /\ in.certificate = None
  /\ in.type # "basic" => Value(o, "registry_username") \in {None, Empty} /\ in.username = None
  /\ in.type = "none" => replace = {}
  /\ in.type \in {"basic", "token", "oauth"} =>
       /\ replace \subseteq {SecretField(in.type)}
       /\ in.secrets # {} <=> in.type # current.type \/ replace # {}
  /\ in.type = "basic" => in.username = Or(Value(o, "registry_username"), stored.username)
  /\ in.type = "mtls" =>
       /\ replace \subseteq {PrivateKey, KeyPassword}
       /\ in.certificate = Either(Value(o, "registry_client_certificate_file"), stored.certificate)
       /\ IF Given(o, "registry_client_certificate_file")
          THEN PrivateKey \in in.secrets /\ in.secrets \subseteq {PrivateKey, KeyPassword}
          ELSE in.secrets = {} /\ replace = {}
  /\ in.type = "oauth" =>
       /\ in.tokenUrl = Or(Value(o, "registry_oauth_token_url"), stored.tokenUrl)
       /\ in.clientId = Or(Value(o, "registry_oauth_client_id"), stored.clientId)
       /\ in.scopes = IF Unsets(o, "registry.auth.oauth.scopes") THEN Empty
                      ELSE Either(Value(o, "registry_oauth_scope"), Either(stored.scopes, Empty))
       /\ in.ca = Replaced(Value(o, "registry_oauth_ca_file"),
                           Unsets(o, "registry.auth.oauth.ca"), stored.ca)
       /\ in.routing = IF Unsets(o, "registry.auth.oauth.routing") THEN None
                       ELSE Or(Value(o, "registry_oauth_routing"), stored.routing)

\* What is asked of a Registry when there is no input for it: nothing, or nothing
\* that a Registry without authentication has.
RegistryUnasked(o, current) ==
  /\ Value(o, "registry_auth") = None /\ RegistryOAuthUnasked(o)
  /\ Value(o, "registry_username") \in {None, Empty}
  /\ Value(o, "registry_client_certificate_file") = None
  /\ Value(o, "registry_ca_file") = None \/ Unsets(o, "registry.tls.ca")
  /\ Unsets(o, "registry.tls.ca") => current.type = "none"
  /\ Replaces(o, "registry") = {}

LEMMA RegistryInputIs ==
  ASSUME NEW registry \in Registries \cup {None}, NEW o, TypedOptions(o),
         NEW in \in RegistryEditInputs(o, registry)
  PROVE  LET current == AuthOf(registry)
             url == Either(Value(o, "registry_url"), IF registry = None THEN None ELSE registry.url) IN
         /\ in = None => RegistryUnasked(o, current)
         /\ in # None =>
              /\ RegistryInputHas(o, current, in)
              /\ in.tlsCa = Replaced(Value(o, "registry_ca_file"), Unsets(o, "registry.tls.ca"),
                                     IF registry = None THEN None ELSE registry.ca)
              /\ url = None => in.tlsCa = None
<1> DEFINE current == AuthOf(registry)
           type == Either(Value(o, "registry_auth"), current.type)
           url == Either(Value(o, "registry_url"), IF registry = None THEN None ELSE registry.url)
           v == RegistryEditValues(o, type, registry)
           required == type # current.type
           replace == Replaces(o, "registry")
           inputs == RegistryInputs(v, url, required, replace)
           stored == IF type = current.type THEN current ELSE NoAuth
           storedCa == IF registry = None THEN None ELSE registry.ca
           certificateFile == Value(o, "registry_client_certificate_file")
<1>1. CASE ~RegistryAuthRequested(o)
  <2>1. in = None
    BY <1>1 DEF RegistryEditInputs
  <2>2. /\ ~AnyGiven(o, RegistryOptions) /\ Replaces(o, "registry") = {}
        /\ o.unset \cap ({"registry.tls.ca"} \cup RegistryOAuthUnsets) = {}
    BY <1>1 DEF RegistryAuthRequested
  <2>3. \A name \in RegistryOptions : Value(o, name) = None
    BY <2>2, Ungiven
  <2>4. \A name \in {"registry.tls.ca"} \cup RegistryOAuthUnsets : ~Unsets(o, name)
    BY <2>2 DEF Unsets
  <2> QED
    BY <2>1, <2>2, <2>3, <2>4
       DEF RegistryUnasked, RegistryOAuthUnasked, RegistryOptions, RegistryIdentity,
           RegistryOAuthOptions, RegistryOAuthUnsets
<1>2. CASE RegistryAuthRequested(o)
  <2>1. type \in RegistryTypes
    BY ChoiceType, AuthOfTyped DEF Either, Auths
  <2>2. /\ v \in Inputs(RegistryTypes) /\ v.type = type
        /\ v.tlsCa = Replaced(Value(o, "registry_ca_file"), Unsets(o, "registry.tls.ca"), storedCa)
        /\ v.certificate = Either(certificateFile, stored.certificate)
    BY <2>1, RegistryEditValuesTyped
  <2>3. /\ v.username = Or(Value(o, "registry_username"), stored.username)
        /\ v.tokenUrl = Or(Value(o, "registry_oauth_token_url"), stored.tokenUrl)
        /\ v.clientId = Or(Value(o, "registry_oauth_client_id"), stored.clientId)
        /\ v.scopes = IF Unsets(o, "registry.auth.oauth.scopes") THEN Empty
                      ELSE Either(Value(o, "registry_oauth_scope"), Either(stored.scopes, Empty))
        /\ v.ca = Replaced(Value(o, "registry_oauth_ca_file"),
                           Unsets(o, "registry.auth.oauth.ca"), stored.ca)
        /\ v.routing = IF Unsets(o, "registry.auth.oauth.routing") THEN None
                       ELSE Or(Value(o, "registry_oauth_routing"), stored.routing)
        /\ v.secrets = FileSecrets(o)
    BY <2>1, RegistryEditValuesAre
  <2>4. /\ Identified(o)
        /\ type # "oauth" =>
             ~AnyGiven(o, RegistryOAuthOptions) /\ o.unset \cap RegistryOAuthUnsets = {}
        /\ \/ inputs = {None} /\ Value(o, "registry_auth") = "none" /\ in = NoInput
           \/ ~(inputs = {None} /\ Value(o, "registry_auth") = "none") /\ in \in inputs
    BY <1>2 DEF RegistryEditInputs
  <2>5. type # "oauth" => RegistryOAuthUnasked(o)
    <3> SUFFICES ASSUME type # "oauth" PROVE RegistryOAuthUnasked(o)
      OBVIOUS
    <3>1. \A name \in RegistryOAuthOptions : Value(o, name) = None
      BY <2>4, Ungiven
    <3>2. \A name \in RegistryOAuthUnsets : ~Unsets(o, name)
      BY <2>4 DEF Unsets
    <3> QED
      BY <3>1, <3>2 DEF RegistryOAuthUnasked, RegistryOAuthOptions, RegistryOAuthUnsets
  <2>6. /\ IF Given(o, "registry_client_certificate_file")
           THEN PrivateKey \in v.secrets /\ v.secrets \subseteq {PrivateKey, KeyPassword}
           ELSE v.secrets = {}
        /\ Given(o, "registry_client_certificate_file") <=> certificateFile # None
    BY <2>3, <2>4, ValueType, KeySecretsTyped DEF Identified, FileSecrets, KeySecrets, Choices
  <2>7. ASSUME NEW i \in inputs
        PROVE  /\ v.type # "oauth" => ~HasOAuth(v)
               /\ v.type # "mtls" => v.certificate = None /\ v.secrets = {}
               /\ i = None => ~RegistryRequested(v, replace) /\ inputs = {i}
               /\ i # None =>
                    /\ url # None /\ replace \subseteq Replaceable(v.type)
                    /\ v.type # "basic" => v.username = None
                    /\ (v.type = "mtls" /\ replace # {}) => v.secrets # {}
                    /\ i.type = v.type /\ i.tlsCa = v.tlsCa
                    /\ \A t \in Texts \ {"scopes"} : i[t] = v[t]
                    /\ v.type # "none" =>
                         /\ i.scopes = v.scopes
                         /\ i.secrets = v.secrets \cup Prompted(v.type, required, replace)
    <3> HIDE DEF v, url, required, replace
    <3>1. i \in RegistryInputs(v, url, required, replace)
      BY DEF inputs
    <3>2. RegistryInputs(v, url, required, replace) = {i}
      BY <3>1 DEF RegistryInputs
    <3> HIDE DEF inputs
    <3> QED
      BY <2>2, <3>1, <3>2, RegistryInputsHave DEF inputs
  <2> HIDE DEF v, url, required, inputs, stored, storedCa, certificateFile
  <2>8. ASSUME inputs = {None}
        PROVE  /\ type = "none" /\ replace = {}
               /\ v.tlsCa = None /\ certificateFile = None
               /\ Value(o, "registry_username") \in {None, Empty}
    <3>1. ~RegistryRequested(v, replace)
      BY <2>7, <2>8
    <3>2. type = "none" /\ replace = {} /\ v.tlsCa = None /\ v.certificate = None /\ v.username = None
      BY <2>2, <3>1 DEF RegistryRequested
    <3> QED
      BY <2>2, <2>3, <3>2 DEF Either, Or
  <2>9. CASE inputs = {None} /\ Value(o, "registry_auth") = "none" /\ in = NoInput
    <3>1. in # None
      BY <2>9, NothingTyped, InputIsSomething
    <3>2. RegistryInputHas(o, current, in)
      BY <2>5, <2>8, <2>9 DEF RegistryInputHas, NoInput, certificateFile
    <3> QED
      BY <2>2, <2>8, <2>9, <3>1, <3>2 DEF NoInput, storedCa
  <2>10. CASE in \in inputs /\ in = None /\ Value(o, "registry_auth") # "none"
    <3>1. inputs = {None}
      BY <2>7, <2>10
    <3>2. type = "none" /\ Value(o, "registry_auth") = None /\ current.type = "none"
      BY <2>8, <2>10, <3>1 DEF Either
    <3>3. Value(o, "registry_ca_file") = None \/ Unsets(o, "registry.tls.ca")
      BY <2>2, <2>8, <3>1 DEF Replaced, Either
    <3> QED
      BY <2>5, <2>8, <2>10, <3>1, <3>2, <3>3 DEF RegistryUnasked, certificateFile
  <2>11. CASE in \in inputs /\ in # None
    <3>1. /\ type # "oauth" => ~HasOAuth(v)
          /\ type # "mtls" => v.certificate = None /\ v.secrets = {}
          /\ url # None /\ replace \subseteq Replaceable(type)
          /\ type # "basic" => v.username = None
          /\ (type = "mtls" /\ replace # {}) => v.secrets # {}
          /\ in.type = type /\ in.tlsCa = v.tlsCa
          /\ in.username = v.username /\ in.certificate = v.certificate /\ in.tokenUrl = v.tokenUrl
          /\ in.clientId = v.clientId /\ in.ca = v.ca /\ in.routing = v.routing
          /\ type # "none" =>
               /\ in.scopes = v.scopes
               /\ in.secrets = v.secrets \cup Prompted(type, required, replace)
      BY <2>2, <2>7, <2>11 DEF Texts
    <3>2. type # "oauth" =>
            in.tokenUrl = None /\ in.clientId = None /\ in.ca = None /\ in.routing = None
      BY <3>1 DEF HasOAuth
    <3>3. type # "mtls" => certificateFile = None /\ in.certificate = None
      BY <2>2, <3>1 DEF Either
    <3>4. type # "basic" => Value(o, "registry_username") \in {None, Empty} /\ in.username = None
      BY <2>3, <3>1 DEF Or
    <3>5. type = "none" => replace = {}
      BY <3>1 DEF Replaceable
    <3>6. type \in {"basic", "token", "oauth"} =>
            /\ replace \subseteq {SecretField(type)}
            /\ in.secrets # {} <=> type # current.type \/ replace # {}
      BY <3>1 DEF Replaceable, Prompted, required
    <3>7. type = "mtls" =>
            /\ replace \subseteq {PrivateKey, KeyPassword}
            /\ in.certificate = Either(certificateFile, stored.certificate)
            /\ IF Given(o, "registry_client_certificate_file")
               THEN PrivateKey \in in.secrets /\ in.secrets \subseteq {PrivateKey, KeyPassword}
               ELSE in.secrets = {} /\ replace = {}
      BY <2>2, <2>6, <3>1 DEF Replaceable, Prompted
    <3>8. RegistryInputHas(o, current, in)
      BY <2>3, <2>5, <3>1, <3>2, <3>3, <3>4, <3>5, <3>6, <3>7
         DEF RegistryInputHas, certificateFile, stored
    <3> QED
      BY <2>2, <2>11, <3>1, <3>8 DEF url, storedCa
  <2>12. (in \in inputs /\ in = None) => inputs = {None}
    BY <2>7
  <2> QED
    BY <2>4, <2>9, <2>10, <2>11, <2>12
<1> QED
  BY <1>1, <1>2

\* What plan_registry_authentication makes of an input, and
\* _registry_auth_document of the plan.
RegistryAuthHas(current, in, new, made) ==
  /\ new.type = in.type
  /\ in.type = "none" => NoText(new, {}) /\ new.refs = {}
  /\ in.type # "none" =>
       /\ \A t \in Texts \ {"scopes"} : new[t] = in[t]
       /\ new.scopes = IF in.type = "oauth" THEN in.scopes ELSE None
  /\ in.type \in {"basic", "token", "oauth"} =>
       OneReference(new.refs, current.refs, "registry", SecretField(in.type), made, in.secrets # {})
  /\ in.type = "mtls" =>
       /\ PrivateKey \in in.secrets => new.refs = NewReferences("registry", in.secrets, made)
       /\ in.secrets = {} => new.refs = Of(current.refs, PrivateKey) \cup Of(current.refs, KeyPassword)

LEMMA RegistryAuthIs ==
  ASSUME NEW registry \in Registries \cup {None}, NEW in \in Inputs(RegistryTypes),
         in.type # "mtls" => in.certificate = None,
         NEW p \in RegistryPlans(registry, in), NEW made
  PROVE  RegistryAuthHas(AuthOf(registry), in, AuthDocument(p, "registry", made), made)
<1> DEFINE refs == AuthOf(registry).refs
           auth == [t \in DOMAIN NoAuth |-> IF t \in Texts \cup {"type"} THEN in[t] ELSE {}]
           simple == [auth EXCEPT !.scopes = None]
           given == in.secrets # {}
           new == AuthDocument(p, "registry", made)
<1>0. in.type \in {"none", "basic", "token", "mtls", "oauth"}
  BY DEF Inputs, RegistryTypes
<1>1. p.auth \in Auths(RegistryTypes) /\ p.auth.type = in.type
  BY RegistryPlansTyped DEF PlanOf
<1>2. /\ new.type = in.type /\ \A t \in Texts : new[t] = p.auth[t]
      /\ new.refs = {r \in p.retained : r.field \notin p.staged}
                       \cup {Reference("registry", field, made) : field \in p.staged}
  BY <1>1, AuthTexts, AuthDocumentOf
<1>3. /\ auth \in Auths(RegistryTypes)
      /\ \A t \in Texts : auth[t] = in[t]
  <2>1. DOMAIN NoAuth = {"type", "username", "certificate", "tokenUrl", "clientId", "scopes",
                         "ca", "routing", "refs"}
    BY DEF NoAuth
  <2>2. \A t \in Texts : in[t] \in Values
    BY DEF Inputs, Texts
  <2>3. in.type \in RegistryTypes
    BY DEF Inputs
  <2> QED
    BY <2>1, <2>2, <2>3 DEF Auths, Texts
<1> HIDE DEF auth
<1>4. /\ simple \in Auths(RegistryTypes) /\ simple.scopes = None
      /\ \A t \in Texts \ {"scopes"} : simple[t] = in[t]
  BY <1>3 DEF Auths, Values, Texts
<1>5. \/ in.type = "none" /\ p = Plan(NoAuth, refs, {}, {})
      \/ in.type \in {"basic", "token"} /\ p \in OneSecret(simple, refs, SecretField(in.type), given)
      \/ in.type = "mtls" /\ p \in RegistryMtlsPlans(simple, refs, in)
      \/ in.type = "oauth" /\ p \in OneSecret(auth, refs, ClientSecret, given)
  BY <1>0 DEF RegistryPlans, auth
<1>6. given \in BOOLEAN
  OBVIOUS
<1> HIDE DEF simple, given, refs
<1>7. CASE in.type = "none" /\ p = Plan(NoAuth, refs, {}, {})
  <2>1. p.auth = NoAuth /\ p.retained = {} /\ p.staged = {}
    BY <1>7 DEF Plan
  <2>2. new.refs = {}
    BY <1>2, <2>1
  <2>3. NoText(new, {})
    BY <1>2, <2>1 DEF NoText, Texts, NoAuth
  <2> QED
    BY <1>2, <1>7, <2>2, <2>3 DEF RegistryAuthHas
<1>8. CASE /\ in.type \in {"basic", "token"}
           /\ p \in OneSecret(simple, refs, SecretField(in.type), given)
  <2> DEFINE field == SecretField(in.type)
  <2>1. p \in OneSecret(simple, refs, field, given)
    BY <1>8
  <2> HIDE DEF field
  <2>2. p.auth = simple /\ OneReference(new.refs, refs, "registry", field, made, given)
    BY <1>4, <1>6, <2>1, OneSecretRefs
  <2>3. new.scopes = None /\ \A t \in Texts \ {"scopes"} : new[t] = in[t]
    BY <1>2, <1>4, <2>2 DEF Texts
  <2> QED
    BY <1>2, <1>8, <2>2, <2>3 DEF RegistryAuthHas, field, given, refs
<1>9. CASE in.type = "mtls" /\ p \in RegistryMtlsPlans(simple, refs, in)
  <2>1. /\ p.auth = simple /\ p.staged = in.secrets
        /\ p.retained = IF PrivateKey \in in.secrets THEN {}
                        ELSE Of(refs, PrivateKey) \cup Of(refs, KeyPassword)
    BY <1>9 DEF RegistryMtlsPlans, Plan
  <2>2. new.scopes = None /\ \A t \in Texts \ {"scopes"} : new[t] = in[t]
    BY <1>2, <1>4, <2>1 DEF Texts
  <2>3. PrivateKey \in in.secrets => new.refs = NewReferences("registry", in.secrets, made)
    BY <1>2, <2>1 DEF NewReferences
  <2>4. in.secrets = {} => new.refs = Of(refs, PrivateKey) \cup Of(refs, KeyPassword)
    BY <1>2, <2>1
  <2> QED
    BY <1>2, <1>9, <2>2, <2>3, <2>4 DEF RegistryAuthHas, refs
<1>10. CASE in.type = "oauth" /\ p \in OneSecret(auth, refs, ClientSecret, given)
  <2>1. p.auth = auth /\ OneReference(new.refs, refs, "registry", ClientSecret, made, given)
    BY <1>3, <1>6, <1>10, OneSecretRefs
  <2>2. \A t \in Texts : new[t] = in[t]
    BY <1>2, <1>3, <2>1
  <2>3. SecretField(in.type) = ClientSecret
    BY <1>10 DEF SecretField
  <2> QED
    BY <1>2, <1>10, <2>1, <2>2, <2>3 DEF RegistryAuthHas, Texts, given, refs
<1> QED
  BY <1>5, <1>7, <1>8, <1>9, <1>10

LEMMA RegistryStored ==
  ASSUME NEW r, RegistrySchema(r)
  PROVE  LET auth == r.auth IN
         /\ auth.type = "none" => NoText(auth, {}) /\ HasFields(auth.refs, {})
         /\ auth.type = "basic" => NoText(auth, {"username"}) /\ HasFields(auth.refs, {Password})
         /\ auth.type = "token" => NoText(auth, {}) /\ HasFields(auth.refs, {Token})
         /\ auth.type = "mtls" =>
              NoText(auth, {"certificate"}) /\ HasFields(auth.refs, {PrivateKey, KeyPassword})
         /\ auth.type = "oauth" =>
              /\ NoText(auth, {"tokenUrl", "clientId", "scopes", "ca", "routing"})
              /\ auth.scopes # None /\ HasFields(auth.refs, {ClientSecret})
<1> DEFINE auth == r.auth
<1>1. \/ auth.type = "none" /\ Shape(auth, {}, {}, {}, {})
      \/ auth.type = "basic" /\ Shape(auth, {"username"}, {}, {Password}, {})
      \/ auth.type = "token" /\ Shape(auth, {}, {}, {Token}, {})
      \/ auth.type = "mtls" /\ Shape(auth, {"certificate"}, {}, {PrivateKey}, {KeyPassword})
      \/ auth.type = "oauth" /\ Shape(auth, OAuthTexts, {"ca", "routing"}, {ClientSecret}, {})
  BY DEF RegistrySchema
<1> HIDE DEF auth
<1>2. Shape(auth, {}, {}, {}, {}) => NoText(auth, {}) /\ HasFields(auth.refs, {})
  BY DEF Shape, NoText, HasFields
<1>3. Shape(auth, {"username"}, {}, {Password}, {}) =>
        NoText(auth, {"username"}) /\ HasFields(auth.refs, {Password})
  BY DEF Shape, NoText, HasFields
<1>4. Shape(auth, {}, {}, {Token}, {}) => NoText(auth, {}) /\ HasFields(auth.refs, {Token})
  BY DEF Shape, NoText, HasFields
<1>5. Shape(auth, {"certificate"}, {}, {PrivateKey}, {KeyPassword}) =>
        NoText(auth, {"certificate"}) /\ HasFields(auth.refs, {PrivateKey, KeyPassword})
  BY DEF Shape, NoText, HasFields
<1>6. Shape(auth, OAuthTexts, {"ca", "routing"}, {ClientSecret}, {}) =>
        /\ NoText(auth, {"tokenUrl", "clientId", "scopes", "ca", "routing"})
        /\ auth.scopes # None /\ HasFields(auth.refs, {ClientSecret})
  BY DEF Shape, NoText, HasFields, OAuthTexts
<1> QED
  BY <1>1, <1>2, <1>3, <1>4, <1>5, <1>6 DEF auth

LEMMA RegistryAsks ==
  ASSUME NEW o
  PROVE  /\ Value(o, "registry_username") # None => Asks(o, RegistryNames, "username")
         /\ Given(o, "registry_client_certificate_file") => Asks(o, RegistryNames, "certificate")
         /\ Value(o, "registry_oauth_token_url") # None => Asks(o, RegistryNames, "tokenUrl")
         /\ Value(o, "registry_oauth_client_id") # None => Asks(o, RegistryNames, "clientId")
         /\ Value(o, "registry_oauth_scope") # None \/ Unsets(o, "registry.auth.oauth.scopes") =>
              Asks(o, RegistryNames, "scopes")
         /\ Value(o, "registry_oauth_ca_file") # None \/ Unsets(o, "registry.auth.oauth.ca") =>
              Asks(o, RegistryNames, "ca")
         /\ Value(o, "registry_oauth_routing") # None \/ Unsets(o, "registry.auth.oauth.routing") =>
              Asks(o, RegistryNames, "routing")
         /\ Value(o, "registry_auth") # None => Asks(o, RegistryNames, "type")
BY NamesIt DEF RegistryNames, Value

LEMMA RegistryKept ==
  ASSUME NEW connection, RegistrySchema(connection),
         NEW old \in Auths(RegistryTypes), old = connection.auth,
         NEW o, NEW in \in Inputs(RegistryTypes), in.type = Either(Value(o, "registry_auth"), old.type),
         RegistryInputHas(o, old, in), NEW new, NEW made, RegistryAuthHas(old, in, new, made)
  PROVE  KeepsAuth(o, "registry", old, new, RegistryNames)
<1> DEFINE replace == Replaces(o, "registry")
           kept(fields) == \A f \in SecretFields : Of(old.refs, f) # Of(new.refs, f) => f \in fields
           was == old.refs
           is == new.refs
           given == in.secrets # {}
<1>1. /\ old.type # new.type => Asks(o, RegistryNames, "type")
      /\ new.type = in.type
      /\ DOMAIN RegistryNames = Texts \cup {"type"}
  BY RegistryAsks DEF RegistryAuthHas, Either, RegistryNames, Texts
<1>2. /\ old.type \in {"none", "basic", "token", "mtls", "oauth"}
      /\ in.type \in {"none", "basic", "token", "mtls", "oauth"}
  BY DEF Auths, Inputs, RegistryTypes
<1> USE DEF NoText, Texts
<1>3. ASSUME in.type = "none", old.type = "none"
      PROVE  /\ \A f \in Texts : old[f] = new[f]
             /\ kept({})
  BY <1>3, RegistryStored DEF RegistryAuthHas, HasFields, Of
<1>4. ASSUME NEW field, OneReference(new.refs, old.refs, "registry", field, made, given),
             HasFields(old.refs, {field}), replace \subseteq {field}, given <=> replace # {}
      PROVE  kept(replace)
  <2>1. OneReference(is, was, "registry", field, made, given) /\ HasFields(was, {field})
    BY <1>4
  <2>2. HasFields(is, {field}) /\ (~given => is = was)
    <3> HIDE DEF is, was, given
    <3> QED
      BY <2>1, OneReferenceHas
  <2>3. (kept({field}) /\ (replace = {} => kept({})))
    BY <1>4, <2>1, <2>2, FieldsOf
  <2> QED
    BY <1>4, <2>3
<1>5. ASSUME in.type = "basic", old.type = "basic"
      PROVE  /\ \A f \in Texts : old[f] # new[f] => Asks(o, RegistryNames, f)
             /\ kept(replace)
  <2>1. NoText(old, {"username"}) /\ HasFields(old.refs, {Password})
    BY <1>5, RegistryStored
  <2>2. /\ in.username = Or(Value(o, "registry_username"), old.username)
        /\ in.certificate = None /\ in.tokenUrl = None /\ in.clientId = None
        /\ in.ca = None /\ in.routing = None
        /\ replace \subseteq {Password} /\ (given <=> replace # {})
    BY <1>5 DEF RegistryInputHas, SecretField
  <2>3. /\ new.username = in.username /\ NoText(new, {"username"})
        /\ OneReference(new.refs, old.refs, "registry", Password, made, given)
    BY <1>5, <2>2 DEF RegistryAuthHas, SecretField
  <2>4. old.username # new.username => Asks(o, RegistryNames, "username")
    BY <2>2, <2>3, RegistryAsks DEF Or
  <2>5. kept(replace)
    BY <1>4, <2>1, <2>2, <2>3
  <2> QED
    BY <2>1, <2>3, <2>4, <2>5
<1>6. ASSUME in.type = "token", old.type = "token"
      PROVE  /\ \A f \in Texts : old[f] = new[f]
             /\ kept(replace)
  <2>1. NoText(old, {}) /\ HasFields(old.refs, {Token})
    BY <1>6, RegistryStored
  <2>2. /\ in.username = None /\ in.certificate = None /\ in.tokenUrl = None /\ in.clientId = None
        /\ in.ca = None /\ in.routing = None
        /\ replace \subseteq {Token} /\ (given <=> replace # {})
    BY <1>6 DEF RegistryInputHas, SecretField
  <2>3. /\ NoText(new, {})
        /\ OneReference(new.refs, old.refs, "registry", Token, made, given)
    BY <1>6, <2>2 DEF RegistryAuthHas, SecretField
  <2>4. kept(replace)
    BY <1>4, <2>1, <2>2, <2>3
  <2> QED
    BY <2>1, <2>3, <2>4
<1>7. ASSUME in.type = "mtls", old.type = "mtls"
      PROVE  /\ \A f \in Texts : old[f] # new[f] => f = "certificate" /\ Asks(o, RegistryNames, f)
             /\ kept(IF Asks(o, RegistryNames, "certificate") THEN {PrivateKey, KeyPassword} ELSE {})
  <2>1. NoText(old, {"certificate"}) /\ HasFields(old.refs, {PrivateKey, KeyPassword})
    BY <1>7, RegistryStored
  <2>2. /\ in.certificate = Either(Value(o, "registry_client_certificate_file"), old.certificate)
        /\ in.username = None /\ in.tokenUrl = None /\ in.clientId = None
        /\ in.ca = None /\ in.routing = None
        /\ IF Given(o, "registry_client_certificate_file")
           THEN PrivateKey \in in.secrets /\ in.secrets \in SUBSET {PrivateKey, KeyPassword}
           ELSE in.secrets = {}
    BY <1>7 DEF RegistryInputHas
  <2>3. new.certificate = in.certificate /\ NoText(new, {"certificate"})
    BY <1>7, <2>2 DEF RegistryAuthHas
  <2>4. CASE Given(o, "registry_client_certificate_file")
    <3>1. Asks(o, RegistryNames, "certificate")
      BY <2>4, RegistryAsks
    <3>2. /\ in.secrets \in SUBSET {PrivateKey, KeyPassword}
          /\ new.refs = NewReferences("registry", in.secrets, made)
      BY <1>7, <2>2, <2>4 DEF RegistryAuthHas
    <3>3. HasFields(new.refs, {PrivateKey, KeyPassword})
      BY <3>2, KeyReferencesHave
    <3>4. kept({PrivateKey, KeyPassword})
      BY <2>1, <3>3, FieldsOf
    <3> QED
      BY <2>1, <2>3, <3>1, <3>4
  <2>5. CASE ~Given(o, "registry_client_certificate_file")
    <3>1. new.certificate = old.certificate
      BY <2>2, <2>3, <2>5 DEF Value, Either
    <3>2. new.refs = Of(old.refs, PrivateKey) \cup Of(old.refs, KeyPassword)
      BY <1>7, <2>2, <2>5 DEF RegistryAuthHas
    <3>3. new.refs = old.refs
      BY <2>1, <3>2 DEF HasFields, Of
    <3> QED
      BY <2>1, <2>3, <3>1, <3>3
  <2> QED
    BY <2>4, <2>5
<1>8. ASSUME in.type = "oauth", old.type = "oauth"
      PROVE  /\ \A f \in Texts : old[f] # new[f] => Asks(o, RegistryNames, f)
             /\ kept(replace)
  <2>1. /\ NoText(old, {"tokenUrl", "clientId", "scopes", "ca", "routing"})
        /\ old.scopes # None /\ HasFields(old.refs, {ClientSecret})
    BY <1>8, RegistryStored
  <2>2. /\ in.username = None /\ in.certificate = None
        /\ replace \subseteq {ClientSecret} /\ (given <=> replace # {})
    BY <1>8 DEF RegistryInputHas, SecretField
  <2>3. /\ in.tokenUrl = Or(Value(o, "registry_oauth_token_url"), old.tokenUrl)
        /\ in.clientId = Or(Value(o, "registry_oauth_client_id"), old.clientId)
        /\ in.scopes = IF Unsets(o, "registry.auth.oauth.scopes") THEN Empty
                       ELSE Either(Value(o, "registry_oauth_scope"), Either(old.scopes, Empty))
        /\ in.ca = Replaced(Value(o, "registry_oauth_ca_file"),
                            Unsets(o, "registry.auth.oauth.ca"), old.ca)
        /\ in.routing = IF Unsets(o, "registry.auth.oauth.routing") THEN None
                        ELSE Or(Value(o, "registry_oauth_routing"), old.routing)
    BY <1>8 DEF RegistryInputHas
  <2>4. /\ \A t \in Texts : new[t] = in[t]
        /\ OneReference(new.refs, old.refs, "registry", ClientSecret, made, given)
    BY <1>8 DEF RegistryAuthHas, SecretField
  <2>5. /\ old.tokenUrl # new.tokenUrl => Asks(o, RegistryNames, "tokenUrl")
        /\ old.clientId # new.clientId => Asks(o, RegistryNames, "clientId")
        /\ old.scopes # new.scopes => Asks(o, RegistryNames, "scopes")
        /\ old.ca # new.ca => Asks(o, RegistryNames, "ca")
        /\ old.routing # new.routing => Asks(o, RegistryNames, "routing")
    BY <2>1, <2>3, <2>4, RegistryAsks DEF Either, Or, Replaced
  <2>6. kept(replace)
    BY <1>4, <2>1, <2>2, <2>4
  <2> QED
    BY <2>1, <2>2, <2>4, <2>5, <2>6
<1>9. KindOf(old.type) = KindOf(new.type) => old.type = in.type
  BY <1>1, <1>2 DEF KindOf, PasswordTypes
<1>10. KindOf(old.type) = KindOf(new.type) =>
        /\ \A f \in Texts : old[f] # new[f] =>
             \/ Asks(o, RegistryNames, f)
             \/ f = "certificate" /\ PrivateKey \in replace
        /\ \A f \in SecretFields : Of(old.refs, f) # Of(new.refs, f) =>
             \/ f \in replace
             \/ /\ f \in {PrivateKey, KeyPassword}
                /\ Asks(o, RegistryNames, "certificate") \/ PrivateKey \in replace
  BY <1>2, <1>3, <1>5, <1>6, <1>7, <1>8, <1>9
<1> QED
  BY <1>1, <1>10, SameKindKept

LEMMA RegistryDone ==
  ASSUME NEW old \in Auths(RegistryTypes), NEW o, TypedOptions(o), ~Contradicts(o),
         NEW in \in Inputs(RegistryTypes), in.type = Either(Value(o, "registry_auth"), old.type),
         RegistryInputHas(o, old, in), NEW new, NEW made, RegistryAuthHas(old, in, new, made),
         \A r \in old.refs : r.made # made
  PROVE  RegistryAuthDone(o, old, new)
<1> DEFINE replace == Replaces(o, "registry")
           was == old.refs
           is == new.refs
           secrets == in.secrets
           given == secrets # {}
<1>1. new.type = in.type /\ new.type = Either(Value(o, "registry_auth"), new.type)
  BY DEF RegistryAuthHas, Either
<1>2. in.type \in {"none", "basic", "token", "mtls", "oauth"}
  BY DEF Inputs, RegistryTypes
<1>3. \A r \in was : r.made # made
  OBVIOUS
<1>4. /\ Unsets(o, "registry.auth.oauth.scopes") => Value(o, "registry_oauth_scope") = None
      /\ Unsets(o, "registry.auth.oauth.ca") => Value(o, "registry_oauth_ca_file") = None
      /\ Unsets(o, "registry.auth.oauth.routing") => Value(o, "registry_oauth_routing") = None
  BY DEF Contradicts, Value
<1>5. /\ in.type # "oauth" => RegistryOAuthUnasked(o)
      /\ in.type # "mtls" => Value(o, "registry_client_certificate_file") = None
      /\ in.type # "basic" => Value(o, "registry_username") \in {None, Empty}
  BY DEF RegistryInputHas
<1>6. in.type # "none" => \A t \in Texts \ {"scopes"} : new[t] = in[t]
  BY DEF RegistryAuthHas
<1> HIDE DEF was, is, secrets
<1> USE DEF SetsText
<1>7. CASE in.type = "none"
  <2>1. replace = {}
    BY <1>7 DEF RegistryInputHas
  <2> QED
    BY <1>1, <1>5, <1>7, <2>1 DEF RegistryAuthDone, RegistryOAuthUnasked
<1>8. ASSUME in.type \in {"basic", "token", "oauth"}
      PROVE  \A f \in replace : IsReplaced(old, new, f)
  <2> DEFINE field == SecretField(in.type)
  <2>1. /\ replace \subseteq {field} /\ (replace # {} => given)
        /\ OneReference(is, was, "registry", field, made, given)
    BY <1>8 DEF RegistryInputHas, RegistryAuthHas, is, was, secrets
  <2> HIDE DEF field, given
  <2>2. given => Of(is, field) # {} /\ Of(is, field) \cap Of(was, field) = {}
    <3>1. given => OneReference(is, was, "registry", field, made, TRUE)
      BY <2>1 DEF OneReference
    <3> QED
      BY <1>3, <3>1, OneReferenceIsNew
  <2> QED
    BY <2>1, <2>2 DEF IsReplaced, is, was
<1>9. CASE in.type = "basic"
  <2>1. SetsText(o, new, "username", "registry_username")
    BY <1>6, <1>9 DEF RegistryInputHas, Or, Texts
  <2> QED
    BY <1>1, <1>5, <1>8, <1>9, <2>1 DEF RegistryAuthDone, RegistryOAuthUnasked
<1>10. CASE in.type = "token"
  BY <1>1, <1>5, <1>8, <1>10 DEF RegistryAuthDone, RegistryOAuthUnasked
<1>11. CASE in.type = "mtls"
  <2>1. SetsText(o, new, "certificate", "registry_client_certificate_file")
    BY <1>6, <1>11 DEF RegistryInputHas, Either, Texts
  <2>2. CASE ~Given(o, "registry_client_certificate_file")
    <3>1. replace = {}
      BY <1>11, <2>2 DEF RegistryInputHas
    <3> QED
      BY <1>1, <1>5, <1>11, <2>1, <3>1 DEF RegistryAuthDone, RegistryOAuthUnasked
  <2>3. CASE Given(o, "registry_client_certificate_file")
    <3>1. /\ replace \subseteq {PrivateKey, KeyPassword}
          /\ PrivateKey \in secrets /\ secrets \in SUBSET {PrivateKey, KeyPassword}
          /\ is = NewReferences("registry", secrets, made)
      BY <1>11, <2>3 DEF RegistryInputHas, RegistryAuthHas, is, secrets
    <3>2. Of(is, PrivateKey) # {} /\ Of(is, PrivateKey) \cap Of(was, PrivateKey) = {}
      BY <1>3, <3>1, KeyReferencesHave
    <3>3. \A f \in replace \ {KeyPassword} : IsReplaced(old, new, f)
      BY <3>1, <3>2 DEF IsReplaced, is, was
    <3> QED
      BY <1>1, <1>5, <1>11, <2>1, <3>3 DEF RegistryAuthDone, RegistryOAuthUnasked
  <2> QED
    BY <2>2, <2>3
<1>12. CASE in.type = "oauth"
  <2>1. /\ in.tokenUrl = Or(Value(o, "registry_oauth_token_url"), in.tokenUrl)
        /\ in.clientId = Or(Value(o, "registry_oauth_client_id"), in.clientId)
        /\ in.scopes = IF Unsets(o, "registry.auth.oauth.scopes") THEN Empty
                       ELSE Either(Value(o, "registry_oauth_scope"), in.scopes)
        /\ in.ca = Replaced(Value(o, "registry_oauth_ca_file"),
                            Unsets(o, "registry.auth.oauth.ca"), in.ca)
        /\ in.routing = IF Unsets(o, "registry.auth.oauth.routing") THEN None
                        ELSE Or(Value(o, "registry_oauth_routing"), in.routing)
    BY <1>12 DEF RegistryInputHas, Or, Either, Replaced
  <2>2. \A t \in Texts : new[t] = in[t]
    BY <1>6, <1>12 DEF RegistryAuthHas
  <2>3. /\ SetsText(o, new, "tokenUrl", "registry_oauth_token_url")
        /\ SetsText(o, new, "clientId", "registry_oauth_client_id")
    BY <2>1, <2>2 DEF Or, Texts
  <2>4. /\ SetsText(o, new, "scopes", "registry_oauth_scope")
        /\ Unsets(o, "registry.auth.oauth.scopes") => new.scopes = Empty
    BY <1>4, <2>1, <2>2 DEF Either, Texts
  <2>5. /\ SetsText(o, new, "ca", "registry_oauth_ca_file")
        /\ Unsets(o, "registry.auth.oauth.ca") => new.ca = None
    BY <1>4, <2>1, <2>2 DEF Replaced, Either, Texts
  <2>6. /\ SetsText(o, new, "routing", "registry_oauth_routing")
        /\ Unsets(o, "registry.auth.oauth.routing") => new.routing = None
    BY <1>4, <2>1, <2>2 DEF Or, Texts
  <2> QED
    BY <1>1, <1>5, <1>8, <1>12, <2>3, <2>4, <2>5, <2>6 DEF RegistryAuthDone
<1> QED
  BY <1>2, <1>7, <1>9, <1>10, <1>11, <1>12

-----------------------------------------------------------------------------
(* What an edit makes of the authentications of a document *)

LEMMA SameAuthKept ==
  ASSUME NEW o, NEW service, NEW auth, NEW names
  PROVE  KeepsAuth(o, service, auth, auth, names)
BY DEF KeepsAuth

LEMMA KafkaNothingAsked ==
  ASSUME NEW o, ~KafkaAuthRequested(o), NEW old, NEW new
  PROVE  KafkaAuthDone(o, old, new)
<1> DEFINE names == {"auth_type", "username", "oauth_scope"} \cup KafkaIdentity \cup KafkaOAuthOptions
<1>1. /\ ~AnyGiven(o, names) /\ Replaces(o, "kafka") = {}
      /\ ~Unsets(o, "kafka.auth.oauth.scopes") /\ ~Unsets(o, "kafka.auth.oauth.ca")
  BY DEF KafkaAuthRequested
<1>2. \A name \in names : Value(o, name) = None
  BY <1>1, Ungiven
<1>3. /\ Value(o, "auth_type") = None /\ Value(o, "username") = None
      /\ Value(o, "client_certificate_file") = None /\ Value(o, "oauth_token_url") = None
      /\ Value(o, "oauth_client_id") = None /\ Value(o, "oauth_scope") = None
      /\ Value(o, "oauth_ca_file") = None
  BY <1>2 DEF KafkaIdentity, KafkaOAuthOptions
<1> QED
  BY <1>1, <1>3 DEF KafkaAuthDone, SetsText, Either

LEMMA RegistryNothingAsked ==
  ASSUME NEW o, NEW current, RegistryUnasked(o, current), NEW old, NEW new
  PROVE  RegistryAuthDone(o, old, new)
BY DEF RegistryUnasked, RegistryOAuthUnasked, RegistryAuthDone, SetsText, Either

\* Without an input nothing was asked and nothing changes.
LEMMA KafkaOfEdit ==
  ASSUME NEW d \in Documents, NEW o, TypedOptions(o), NEW in \in EditInputs(d, o), NEW made \in Nat,
         NEW result, NEW e, NEW k, NEW p, EditOf(result, d, o, in, made, e, k, p)
  PROVE  LET old == d.kafka.auth
             new == result.document.kafka.auth IN
         /\ in.kafka = None => ~KafkaAuthRequested(o) /\ new = old
         /\ in.kafka # None =>
              /\ in.kafka \in Inputs(KafkaTypes)
              /\ in.kafka.type = Either(Value(o, "auth_type"), old.type)
              /\ KafkaInputHas(o, old, in.kafka) /\ KafkaAuthHas(old, in.kafka, new, made)
<1> DEFINE old == d.kafka.auth
           new == result.document.kafka.auth
           ki == in.kafka
<1>1. d.kafka \in KafkaConnections /\ old \in Auths(KafkaTypes)
  BY DEF Documents, KafkaConnections
<1>2. ki \in KafkaEditInputs(o, old)
  BY DEF EditInputs
<1>3. /\ e.kafka \in TransportEdits(d.kafka, o)
      /\ k \in KafkaEditPlans(old, ki, e.kafka.transport)
      /\ new = IF ki = None THEN e.kafka.auth ELSE AuthDocument(k, "kafka", made)
  BY DEF EditOf
<1>4. e.kafka.auth = old
  BY <1>1, <1>3, TransportEdited
<1> HIDE DEF old, new, ki
<1>5. ASSUME ki = None
      PROVE  ~KafkaAuthRequested(o) /\ new = old
  BY <1>1, <1>2, <1>3, <1>4, <1>5, KafkaEditTyped
<1>6. ASSUME ki # None
      PROVE  /\ ki \in Inputs(KafkaTypes) /\ ki.type = Either(Value(o, "auth_type"), old.type)
             /\ KafkaInputHas(o, old, ki) /\ KafkaAuthHas(old, ki, new, made)
  <2>1. ki \in Inputs(KafkaTypes) /\ ki.type = Either(Value(o, "auth_type"), old.type)
    BY <1>1, <1>2, <1>6, KafkaEditTyped
  <2>2. KafkaInputHas(o, old, ki)
    BY <1>1, <1>2, <1>6, KafkaInputIs
  <2>3. k \in KafkaPlans(old, ki)
    BY <1>3, <1>6 DEF KafkaEditPlans
  <2>4. KafkaAuthHas(old, ki, AuthDocument(k, "kafka", made), made)
    BY <1>1, <2>1, <2>3, KafkaAuthIs
  <2> QED
    BY <1>3, <1>6, <2>1, <2>2, <2>4
<1> QED
  BY <1>5, <1>6 DEF old, new, ki

LEMMA RegistryOfEdit ==
  ASSUME NEW d \in Documents, NEW o, TypedOptions(o), NEW in \in EditInputs(d, o), NEW made \in Nat,
         NEW result, NEW e, NEW k, NEW p, EditOf(result, d, o, in, made, e, k, p),
         ~RequestConflicts(o, in.kafka, in.registry)
  PROVE  LET old == d.registry
             current == AuthOf(old)
             new == result.document.registry
             oldCa == IF old = None THEN None ELSE old.ca IN
         /\ in.registry = None =>
              /\ RegistryUnasked(o, current)
              /\ new # None => new.auth = current /\ new.ca = oldCa
         /\ in.registry # None =>
              /\ in.registry \in Inputs(RegistryTypes)
              /\ in.registry.type = Either(Value(o, "registry_auth"), current.type)
              /\ RegistryInputHas(o, current, in.registry)
              /\ RegistryAuthHas(current, in.registry, AuthOf(new), made)
              /\ in.registry.tlsCa =
                   Replaced(Value(o, "registry_ca_file"), Unsets(o, "registry.tls.ca"), oldCa)
              /\ IF new = None THEN in.registry.tlsCa = None ELSE new.ca = in.registry.tlsCa
<1> DEFINE old == d.registry
           current == AuthOf(old)
           new == result.document.registry
           oldCa == IF old = None THEN None ELSE old.ca
           ri == in.registry
           url == Either(Value(o, "registry_url"), IF old = None THEN None ELSE old.url)
<1>1. old \in Registries \cup {None} /\ current \in Auths(RegistryTypes)
  BY AuthOfTyped DEF Documents
<1>2. ri \in RegistryEditInputs(o, old)
  BY DEF EditInputs
<1>3. /\ e.registry \in RegistryEdits(old, o)
      /\ p \in RegistryEditPlans(d, e, ri)
      /\ new = None <=> e.registry = None
      /\ new # None => IF ri = None THEN new = e.registry
                       ELSE /\ new.ca = ri.tlsCa
                            /\ new.auth = AuthDocument(p, "registry", made)
  BY DEF EditOf
<1>4. e.registry # None => e.registry.auth = current /\ e.registry.ca = oldCa
  BY <1>1, <1>3, RegistryEdited DEF AuthOf
<1>5. (e.registry = None /\ ri # None) => old = None /\ url = None
  <2>1. ri # None => ~Unsets(o, "registry")
    BY DEF RequestConflicts
  <2> QED
    BY <1>1, <1>3, <2>1, RegistryEdited DEF Either
<1> HIDE DEF current, new, oldCa, ri
<1>6. ASSUME ri = None
      PROVE  RegistryUnasked(o, current) /\ (new # None => new.auth = current /\ new.ca = oldCa)
  <2>1. RegistryUnasked(o, current)
    BY <1>1, <1>2, <1>6, RegistryInputIs DEF current
  <2> QED
    BY <1>3, <1>4, <1>6, <2>1
<1>7. ASSUME ri # None
      PROVE  /\ ri \in Inputs(RegistryTypes) /\ ri.type = Either(Value(o, "registry_auth"), current.type)
             /\ RegistryInputHas(o, current, ri) /\ RegistryAuthHas(current, ri, AuthOf(new), made)
             /\ ri.tlsCa = Replaced(Value(o, "registry_ca_file"), Unsets(o, "registry.tls.ca"), oldCa)
             /\ IF new = None THEN ri.tlsCa = None ELSE new.ca = ri.tlsCa
  <2>1. /\ ri \in Inputs(RegistryTypes) /\ ri.type = Either(Value(o, "registry_auth"), current.type)
        /\ ri.type # "mtls" => ri.certificate = None
        /\ url = None => ri.type = "none"
    BY <1>1, <1>2, <1>7, RegistryEditTyped DEF current
  <2>2. /\ RegistryInputHas(o, current, ri)
        /\ ri.tlsCa = Replaced(Value(o, "registry_ca_file"), Unsets(o, "registry.tls.ca"), oldCa)
        /\ url = None => ri.tlsCa = None
    BY <1>1, <1>2, <1>7, RegistryInputIs DEF current, oldCa
  <2>3. CASE new = None
    <3>1. ri.type = "none" /\ ri.tlsCa = None /\ AuthOf(new) = NoAuth
      BY <1>3, <1>5, <1>7, <2>1, <2>2, <2>3 DEF AuthOf
    <3>2. NoText(NoAuth, {}) /\ NoAuth.refs = {} /\ NoAuth.type = "none"
      BY DEF NoText, Texts, NoAuth
    <3>3. RegistryAuthHas(current, ri, NoAuth, made)
      BY <3>1, <3>2 DEF RegistryAuthHas
    <3> QED
      BY <2>1, <2>2, <2>3, <3>1, <3>3
  <2>4. CASE new # None
    <3>1. p \in RegistryPlans(old, ri)
      BY <1>3, <1>7 DEF RegistryEditPlans
    <3>2. RegistryAuthHas(current, ri, AuthDocument(p, "registry", made), made)
      BY <1>1, <2>1, <3>1, RegistryAuthIs DEF current
    <3>3. AuthOf(new) = AuthDocument(p, "registry", made) /\ new.ca = ri.tlsCa
      BY <1>3, <1>7, <2>4 DEF AuthOf
    <3> QED
      BY <2>1, <2>2, <2>4, <3>2, <3>3
  <2> QED
    BY <2>3, <2>4
<1> QED
  BY <1>6, <1>7 DEF current, new, oldCa, ri

LEMMA EditKeeps ==
  ASSUME NEW d \in Documents, FitsSchema(d), NEW o, TypedOptions(o), NEW in \in EditInputs(d, o),
         NEW made \in Nat, NEW result \in EditResults(d, o, in, made)
  PROVE  Keeps(o, d, result.document)
<1> DEFINE new == result.document
           named == Named(o)
<1>1. ~RequestConflicts(o, in.kafka, in.registry)
  BY ResultParts
<1>2. PICK e, k, p : EditOf(result, d, o, in, made, e, k, p)
  BY ResultIsEdit
<1>3. /\ d.kafka \in KafkaConnections /\ d.kafka.auth \in Auths(KafkaTypes)
      /\ d.registry \in Registries \cup {None} /\ AuthOf(d.registry) \in Auths(RegistryTypes)
  BY AuthOfTyped DEF Documents, KafkaConnections
<1>4. /\ new \in Documents /\ new.description = DescriptionEdit(d, o)
      /\ e.kafka \in TransportEdits(d.kafka, o) /\ e.registry \in RegistryEdits(d.registry, o)
      /\ new.kafka.transport = e.kafka.transport /\ new.kafka.ca = e.kafka.ca
      /\ new.registry = None <=> e.registry = None
      /\ new.registry # None =>
           new.registry.provider = e.registry.provider /\ new.registry.url = e.registry.url
  BY <1>2 DEF EditOf
<1>5. \A name : Value(o, name) # None \/ Given(o, name) \/ Unsets(o, name) => name \in named
  BY DEF Named, Value, Given, Unsets
<1>6. KafkaSchema(d.kafka) /\ (d.registry # None => RegistrySchema(d.registry))
  BY DEF FitsSchema
<1>7. KeepsAuth(o, "kafka", d.kafka.auth, new.kafka.auth, KafkaNames)
  <2>1. CASE in.kafka = None
    <3>1. new.kafka.auth = d.kafka.auth
      BY <1>2, <2>1, KafkaOfEdit
    <3> QED
      BY <3>1, SameAuthKept
  <2>2. CASE in.kafka # None
    <3> DEFINE ki == in.kafka
    <3>1. /\ ki \in Inputs(KafkaTypes) /\ ki.type = Either(Value(o, "auth_type"), d.kafka.auth.type)
          /\ KafkaInputHas(o, d.kafka.auth, ki)
          /\ KafkaAuthHas(d.kafka.auth, ki, new.kafka.auth, made)
      BY <1>2, <2>2, KafkaOfEdit
    <3> HIDE DEF ki, new
    <3> QED
      BY <1>3, <1>6, <3>1, KafkaKept
  <2> QED
    BY <2>1, <2>2
<1>8. /\ d.description # new.description => "description" \in named
      /\ d.kafka.transport # new.kafka.transport => "transport" \in named
      /\ d.kafka.ca # new.kafka.ca => named \cap {"ca_file", "kafka.tls.ca", "transport"} # {}
  <2>1. d.description # new.description => Value(o, "description") # None \/ Unsets(o, "description")
    BY <1>4 DEF DescriptionEdit, Either
  <2>2. d.kafka.transport # new.kafka.transport => Value(o, "transport") # None
    BY <1>3, <1>4, TransportEdited DEF Either
  <2>3. d.kafka.ca # new.kafka.ca =>
          Given(o, "transport") \/ Given(o, "ca_file") \/ Unsets(o, "kafka.tls.ca")
    BY <1>3, <1>4, TransportCa
  <2> HIDE DEF named, new
  <2> QED
    BY <1>5, <2>1, <2>2, <2>3
<1>9. /\ new.registry = None => d.registry = None \/ "registry" \in named
      /\ (d.registry = None /\ new.registry # None) => "registry_url" \in named
  <2>1. new.registry = None => d.registry = None \/ Unsets(o, "registry")
    BY <1>3, <1>4, RegistryEdited
  <2>2. (d.registry = None /\ new.registry # None) => Value(o, "registry_url") # None
    <3>1. new.registry # None => new.registry.url \in Urls
      BY <1>4 DEF Documents, Registries
    <3>2. (d.registry = None /\ new.registry # None) => new.registry.url = Value(o, "registry_url")
      BY <1>3, <1>4, RegistryEdited
    <3> QED
      BY <3>1, <3>2, NoneAssumption
  <2> HIDE DEF named, new
  <2> QED
    BY <1>5, <2>1, <2>2
<1>10. ASSUME d.registry # None, new.registry # None
       PROVE  /\ d.registry.provider # new.registry.provider => "registry_provider" \in named
              /\ d.registry.url # new.registry.url => "registry_url" \in named
              /\ d.registry.ca # new.registry.ca =>
                   named \cap {"registry_ca_file", "registry.tls.ca"} # {}
              /\ KeepsAuth(o, "registry", d.registry.auth, new.registry.auth, RegistryNames)
  <2> DEFINE ri == in.registry
             old == d.registry.auth
             auth == new.registry.auth
  <2>1. old = AuthOf(d.registry) /\ auth = AuthOf(new.registry)
    BY <1>10 DEF AuthOf
  <2>2. /\ d.registry.provider # new.registry.provider => Value(o, "registry_provider") # None
        /\ d.registry.url # new.registry.url => Value(o, "registry_url") # None
    BY <1>3, <1>4, <1>10, RegistryEdited DEF Either
  <2>3. CASE ri = None
    <3>1. auth = old /\ new.registry.ca = d.registry.ca
      BY <1>1, <1>2, <1>10, <2>1, <2>3, RegistryOfEdit
    <3>2. KeepsAuth(o, "registry", old, auth, RegistryNames)
      BY <3>1, SameAuthKept
    <3> QED
      BY <1>5, <2>2, <3>1, <3>2
  <2>4. CASE ri # None
    <3>1. /\ ri \in Inputs(RegistryTypes) /\ ri.type = Either(Value(o, "registry_auth"), old.type)
          /\ RegistryInputHas(o, old, ri) /\ RegistryAuthHas(old, ri, auth, made)
          /\ new.registry.ca =
               Replaced(Value(o, "registry_ca_file"), Unsets(o, "registry.tls.ca"), d.registry.ca)
      BY <1>1, <1>2, <1>10, <2>1, <2>4, RegistryOfEdit
    <3>2. d.registry.ca # new.registry.ca =>
            Value(o, "registry_ca_file") # None \/ Unsets(o, "registry.tls.ca")
      BY <3>1 DEF Replaced, Either
    <3>3. old \in Auths(RegistryTypes) /\ RegistrySchema(d.registry)
      BY <1>3, <1>6, <1>10, <2>1
    <3>4. KeepsAuth(o, "registry", old, auth, RegistryNames)
      <4> DEFINE connection == d.registry
      <4>1. RegistrySchema(connection) /\ old = connection.auth
        BY <3>3
      <4> HIDE DEF ri, auth, old, connection
      <4> QED
        BY <3>1, <3>3, <4>1, RegistryKept
    <3> HIDE DEF named
    <3> QED
      BY <1>5, <2>2, <3>2, <3>4
  <2> QED
    BY <2>3, <2>4
<1> QED
  BY <1>7, <1>8, <1>9, <1>10 DEF Keeps

LEMMA EditIsDone ==
  ASSUME NEW d \in Documents, NEW o, TypedOptions(o), NEW in \in EditInputs(d, o),
         NEW made \in Nat, \A r \in RefsOf(d) : r.made # made,
         NEW result \in EditResults(d, o, in, made)
  PROVE  Done(o, d, result.document)
<1> DEFINE new == result.document
<1>1. ~Contradicts(o) /\ ~RequestConflicts(o, in.kafka, in.registry)
  BY ResultParts
<1>2. PICK e, k, p : EditOf(result, d, o, in, made, e, k, p)
  BY ResultIsEdit
<1>3. /\ d.kafka \in KafkaConnections /\ d.kafka.auth \in Auths(KafkaTypes)
      /\ d.registry \in Registries \cup {None} /\ AuthOf(d.registry) \in Auths(RegistryTypes)
  BY AuthOfTyped DEF Documents, KafkaConnections
<1>4. /\ new.description = DescriptionEdit(d, o)
      /\ e.kafka \in TransportEdits(d.kafka, o) /\ e.registry \in RegistryEdits(d.registry, o)
      /\ new.kafka.transport = e.kafka.transport /\ new.kafka.ca = e.kafka.ca
      /\ new.registry = None <=> e.registry = None
      /\ new.registry # None =>
           new.registry.provider = e.registry.provider /\ new.registry.url = e.registry.url
  BY <1>2 DEF EditOf
<1>5. /\ \A r \in d.kafka.auth.refs : r.made # made
      /\ \A r \in AuthOf(d.registry).refs : r.made # made
  BY DEF RefsOf
<1>6. /\ Given(o, "description") => new.description = Value(o, "description")
      /\ Unsets(o, "description") => new.description = None
  <2>1. Given(o, "description") => Value(o, "description") # None
    BY ValueType DEF Choices
  <2> QED
    BY <1>1, <1>4, <2>1 DEF DescriptionEdit, Either, Contradicts
<1>7. new.kafka.transport = Either(Value(o, "transport"), new.kafka.transport)
  BY <1>3, <1>4, TransportEdited DEF Either
<1>8. /\ Given(o, "ca_file") => new.kafka.ca = Value(o, "ca_file")
      /\ Unsets(o, "kafka.tls.ca") => new.kafka.ca = None
  <2>1. Unsets(o, "kafka.tls.ca") => Value(o, "ca_file") = None
    BY <1>1 DEF Contradicts, Value
  <2> QED
    BY <1>3, <1>4, <2>1, TransportCa
<1>9. KafkaAuthDone(o, d.kafka.auth, new.kafka.auth)
  <2>1. CASE in.kafka = None
    <3>1. ~KafkaAuthRequested(o)
      BY <1>2, <2>1, KafkaOfEdit
    <3> QED
      BY <3>1, KafkaNothingAsked
  <2>2. CASE in.kafka # None
    <3> DEFINE ki == in.kafka
               old == d.kafka.auth
    <3>1. /\ ki \in Inputs(KafkaTypes) /\ ki.type = Either(Value(o, "auth_type"), old.type)
          /\ KafkaInputHas(o, old, ki) /\ KafkaAuthHas(old, ki, new.kafka.auth, made)
      BY <1>2, <2>2, KafkaOfEdit
    <3>2. old \in Auths(KafkaTypes) /\ \A r \in old.refs : r.made # made
      BY <1>3, <1>5
    <3> HIDE DEF ki, new, old
    <3>3. KafkaAuthDone(o, old, new.kafka.auth)
      BY <1>1, <3>1, <3>2, KafkaDone
    <3> QED
      BY <3>3 DEF old
  <2> QED
    BY <2>1, <2>2
<1>10. Unsets(o, "registry") => new.registry = None
  BY <1>3, <1>4, RegistryEdited
<1>11. AnyGiven(o, {"registry_url", "registry_provider"}) =>
         /\ new.registry.url = Either(Value(o, "registry_url"), new.registry.url)
         /\ new.registry.provider = Either(Value(o, "registry_provider"), new.registry.provider)
  <2> SUFFICES ASSUME AnyGiven(o, {"registry_url", "registry_provider"})
               PROVE  /\ new.registry.url = Either(Value(o, "registry_url"), new.registry.url)
                      /\ new.registry.provider =
                           Either(Value(o, "registry_provider"), new.registry.provider)
    OBVIOUS
  <2>1. Given(o, "registry_url") \/ Given(o, "registry_provider")
    BY DEF AnyGiven, Given
  <2>2. Value(o, "registry_url") # None \/ Value(o, "registry_provider") # None
    BY <2>1, ChoiceGiven
  <2>3. ~Unsets(o, "registry")
    BY <1>1, <2>1 DEF RequestConflicts, AnyGiven, Given
  <2>4. new.registry # None
    BY <1>3, <1>4, <2>2, <2>3, RegistryEdited
  <2> QED
    BY <1>3, <1>4, <2>4, RegistryEdited DEF Either
<1>12. /\ Given(o, "registry_ca_file") => new.registry.ca = Value(o, "registry_ca_file")
       /\ (Unsets(o, "registry.tls.ca") /\ new.registry # None) =>
            new.registry.ca = None \/ new.registry.auth.type = "none"
       /\ RegistryAuthDone(o, AuthOf(d.registry), AuthOf(new.registry))
  <2> DEFINE ri == in.registry
             old == AuthOf(d.registry)
             fileCa == Value(o, "registry_ca_file")
             reset == Unsets(o, "registry.tls.ca")
  <2>1. /\ Given(o, "registry_ca_file") => fileCa # None /\ ~reset
        /\ ~Given(o, "registry_ca_file") => fileCa = None
    <3>1. Given(o, "registry_ca_file") <=> fileCa # None
      BY ValueType DEF Choices
    <3> QED
      BY <1>1, <3>1 DEF Contradicts
  <2>2. CASE ri = None
    <3>1. RegistryUnasked(o, old) /\ (new.registry # None => new.registry.auth = old)
      BY <1>1, <1>2, <2>2, RegistryOfEdit
    <3>2. RegistryAuthDone(o, old, AuthOf(new.registry))
      BY <3>1, RegistryNothingAsked
    <3> QED
      BY <2>1, <3>1, <3>2 DEF RegistryUnasked
  <2>3. CASE ri # None
    <3> DEFINE auth == AuthOf(new.registry)
               oldCa == IF d.registry = None THEN None ELSE d.registry.ca
    <3>1. /\ ri \in Inputs(RegistryTypes) /\ ri.type = Either(Value(o, "registry_auth"), old.type)
          /\ RegistryInputHas(o, old, ri) /\ RegistryAuthHas(old, ri, auth, made)
          /\ ri.tlsCa = Replaced(fileCa, reset, oldCa)
          /\ IF new.registry = None THEN ri.tlsCa = None ELSE new.registry.ca = ri.tlsCa
      BY <1>1, <1>2, <2>3, RegistryOfEdit
    <3>2. old \in Auths(RegistryTypes) /\ \A r \in old.refs : r.made # made
      BY <1>3, <1>5
    <3> HIDE DEF ri, old, auth, oldCa, fileCa, reset, new
    <3>3. RegistryAuthDone(o, old, auth)
      BY <1>1, <3>1, <3>2, RegistryDone
    <3>4. /\ Given(o, "registry_ca_file") => new.registry.ca = fileCa
          /\ (reset /\ new.registry # None) => new.registry.ca = None
      BY <2>1, <3>1 DEF Replaced, Either
    <3> QED
      BY <3>3, <3>4 DEF old, auth, fileCa, reset
  <2> QED
    BY <2>2, <2>3
<1> QED
  BY <1>6, <1>7, <1>8, <1>9, <1>10, <1>11, <1>12 DEF Done

\* The commit of an edit that succeeds: its result becomes the document.
LEMMA CommittedEdit ==
  ASSUME IInv, Next, Committed
  PROVE  /\ profile \in Documents /\ FitsSchema(profile)
         /\ TypedOptions(edit.request) /\ edit.in \in EditInputs(profile, edit.request)
         /\ FreshIdentifier \in Nat /\ \A r \in RefsOf(profile) : r.made # FreshIdentifier
         /\ \E result \in EditResults(profile, edit.request, edit.in, FreshIdentifier) :
              profile' = result.document
<1>1. edit # None /\ edit' = None /\ outcome' = "done"
  BY DEF Committed
<1>2. Commit
  <2>1. CASE Collect
    BY <1>1, <2>1 DEF Collect, IInv, EditInv
  <2>2. CASE Refuse \/ Conflict
    BY <1>1, <2>2 DEF Refuse, Conflict
  <2>3. CASE edit' = edit \/ edit = None
    BY <1>1, <2>3
  <2> QED
    BY <2>1, <2>2, <2>3 DEF Next, Add, Ask, Remove, Repair, OtherEdit
<1> DEFINE results == EditResults(profile, edit.request, edit.in, FreshIdentifier)
<1>3. /\ edit.phase = "collected" /\ profile # None /\ edit.generation = <<identity, revision>>
      /\ \E result \in results : Concludes(result)
  BY <1>1, <1>2 DEF Commit, SameGeneration
<1>4. /\ profile = edit.read /\ profile \in Documents /\ Verdict(profile) = "done"
      /\ TypedOptions(edit.request) /\ edit.in \in EditInputs(profile, edit.request)
  BY <1>1, <1>3 DEF IInv, EditInv
<1>5. FitsSchema(profile)
  BY <1>4 DEF Verdict
<1>6. FreshIdentifier \in Nat /\ \A r \in vault : r.made # FreshIdentifier
  BY IdentifierIsFresh DEF IInv, TypeOK
<1>7. RefsOf(profile) \subseteq vault
  BY <1>3 DEF IInv, StoreInv, VaultExact
<1>8. PICK result \in results : Concludes(result)
  BY <1>3
<1>9. profile' = result.document
  <2>1. Stores(result)
    BY <1>1, <1>8 DEF Concludes, RefusesLate
  <2> QED
    BY <2>1 DEF Stores
<1> QED
  BY <1>4, <1>5, <1>6, <1>7, <1>8, <1>9

-----------------------------------------------------------------------------
(* Theorems *)

\* What is stored was judged, refers to what the vault has, and agrees with the
\* generation that an edit read.
THEOREM Invariance == Spec => []IInv
BY InitInv, StepInv, PTL DEF Spec

\* The vault holds exactly the secrets that the document refers to, apart from
\* what a late refusal leaves (profile_auth.py's plans, transactional_secrets).
THEOREM VaultIsExact == Spec => []VaultExact
<1>1. IInv => VaultExact
  BY DEF IInv, StoreInv
<1> QED
  BY <1>1, Invariance, PTL

\* edit_rule_violation rejects no edit that the profile layer would accept.
THEOREM EarlyCheckRejectsNoneInVain == Spec => []EarlyCheckIsSound
<1>1. IInv => EarlyCheckIsSound
  <2> SUFFICES ASSUME IInv, edit # None, EditViolation(edit.read, edit.request),
                      NEW in \in EditInputs(edit.read, edit.request),
                      NEW result \in EditResults(edit.read, edit.request, in, FreshIdentifier)
               PROVE  Verdict(result.document) # "done"
    BY DEF EarlyCheckIsSound, Asking
  <2>1. FreshIdentifier \in Nat
    BY IdentifierIsFresh DEF IInv, TypeOK
  <2>2. edit.read \in Documents /\ TypedOptions(edit.request)
    BY DEF IInv, EditInv
  <2>3. DocumentViolation(result.document)
    BY <2>1, <2>2, EditIsForbidden
  <2> QED
    BY <2>3 DEF Verdict
<1> QED
  BY <1>1, Invariance, PTL

\* The document that an edit changes is the one that it read before its prompts
\* (_validate_expected_generation).
THEOREM NothingIsLost == Spec => NothingLost
<1>1. IInv /\ [Next]_vars => [Committed => profile = edit.read]_vars
  <2> SUFFICES ASSUME IInv, Next, Committed
               PROVE  profile = edit.read
    OBVIOUS
  <2>1. edit # None /\ edit' = None /\ outcome' = "done"
    BY DEF Committed
  <2>2. CASE Commit
    <3>1. profile # None /\ edit.generation = <<identity, revision>>
      BY <2>2 DEF Commit, SameGeneration
    <3> QED
      BY <2>1, <3>1 DEF IInv, EditInv
  <2>3. CASE Collect
    BY <2>1, <2>3 DEF Collect, IInv, EditInv
  <2>4. CASE Refuse \/ Conflict
    BY <2>1, <2>4 DEF Refuse, Conflict
  <2>5. CASE edit' = edit
    BY <2>1, <2>5
  <2>6. CASE edit = None
    BY <2>1, <2>6
  <2> QED
    BY <2>2, <2>3, <2>4, <2>5, <2>6 DEF Next, Add, Ask, Remove, Repair, OtherEdit
<1> QED
  BY <1>1, Invariance, PTL DEF Spec, NothingLost

\* No secret is stored for options that the connection rules forbid, but for the
\* stored CA of a Registry that moves to http (add_rule_violation,
\* edit_rule_violation).
THEOREM JudgedFirst == Spec => JudgedBeforeStored
<1> DEFINE Late == stranded' \ stranded # {} /\ outcome' = "forbidden"
<1>1. IInv /\ [Next]_vars => [Late => StoredCaMeetsHttp]_vars
  <2> SUFFICES ASSUME IInv, Next, Late
               PROVE  StoredCaMeetsHttp
    OBVIOUS
  <2>1. FreshIdentifier \in Nat
    BY IdentifierIsFresh DEF IInv, TypeOK
  <2>2. ASSUME NEW result, Concludes(result)
        PROVE  DocumentViolation(result.document)
    <3>1. RefusesLate(result)
      BY <2>2 DEF Concludes, Stores
    <3> QED
      BY <3>1 DEF RefusesLate, Verdict
  <2>3. CASE \E request \in AddRequests[identity] : Add(request)
    <3>1. PICK request \in AddRequests[identity] : Add(request)
      BY <2>3
    <3> DEFINE o == Asked(request, 1)
    <3>2. TypedOptions(o)
      BY RequestsTyped DEF IInv
    <3>3. PICK in \in AddInputs(o) :
            \E result \in AddResults(o, in, FreshIdentifier) : Concludes(result)
      BY <3>1 DEF Add
    <3>4. PICK result \in AddResults(o, in, FreshIdentifier) : Concludes(result)
      BY <3>3
    <3>5. ~AddViolation(o)
      BY <3>1 DEF Add
    <3> HIDE DEF o
    <3>6. ~DocumentViolation(result.document)
      BY <2>1, <3>2, <3>5, AdditionIsAllowed
    <3> QED
      BY <2>2, <3>4, <3>6
  <2>4. CASE Commit
    <3> DEFINE o == edit.request
               results == EditResults(profile, o, edit.in, FreshIdentifier)
    <3>1. /\ edit # None /\ edit.phase = "collected" /\ profile # None
          /\ edit.generation = <<identity, revision>>
          /\ (\E result \in results : Concludes(result)) \/ stranded' = stranded
      BY <2>4 DEF Commit, SameGeneration
    <3>2. /\ profile = edit.read /\ profile \in Documents /\ Verdict(profile) = "done"
          /\ TypedOptions(o) /\ edit.in \in EditInputs(profile, o) /\ ~EditViolation(profile, o)
      BY <3>1 DEF IInv, EditInv
    <3>3. PICK result \in results : Concludes(result)
      BY <3>1
    <3>4. DocumentViolation(result.document)
      BY <2>2, <3>3
    <3> HIDE DEF o
    <3>5. Value(o, "registry_url") = "http" /\ profile.registry # None /\ HasTls(profile.registry)
      BY <2>1, <3>2, <3>4, EditIsAllowed
    <3> QED
      BY <3>1, <3>2, <3>5 DEF StoredCaMeetsHttp, o
  <2>5. CASE stranded' = stranded \/ stranded' = {}
    BY <2>5
  <2> QED
    BY <2>3, <2>4, <2>5 DEF Next, Ask, Collect, Refuse, Conflict, Remove, Repair, OtherEdit, Stores
<1> QED
  BY <1>1, Invariance, PTL DEF Spec, JudgedBeforeStored

\* An edit changes only the fields that its options name, and what belongs to
\* them (apply_profile_edits, the plans of profile_auth.py).
THEOREM KeepsWhatIsUnasked == Spec => KeepsUnasked
<1> DEFINE Kept == Keeps(edit.request, profile, profile')
<1>1. IInv /\ [Next]_vars => [Committed => Kept]_vars
  <2> SUFFICES ASSUME IInv, Next, Committed
               PROVE  Kept
    OBVIOUS
  <2> QED
    BY CommittedEdit, EditKeeps
<1> QED
  BY <1>1, Invariance, PTL DEF Spec, KeepsUnasked

\* An accepted edit has done all that its options ask, but for the three that
\* are ignored (edit_profile, validate_edit_options, the plans).
THEOREM DoesWhatIsAsked == Spec => AskedIsDone
<1> DEFINE IsDone == Done(edit.request, profile, profile')
<1>1. IInv /\ [Next]_vars => [Committed => IsDone]_vars
  <2> SUFFICES ASSUME IInv, Next, Committed
               PROVE  IsDone
    OBVIOUS
  <2> QED
    BY CommittedEdit, EditIsDone
<1> QED
  BY <1>1, Invariance, PTL DEF Spec, AskedIsDone
===============================================================================
