----------------------------- MODULE Marketplace -----------------------------
(***************************************************************************)
(* Domain packs (marketplace/src/lib.rs): a pack's author signs a          *)
(* versioned payload of it, the pack travels, and verify_domain_pack       *)
(* accepts or refuses what arrives under the author's public key.  Ed25519 *)
(* is ideal: a signature verifies exactly for the key and the payload it   *)
(* was made with.  A payload is a record of the fields it covers, which is *)
(* what the fixed-order JSON encoding tells apart; the module's SHA-256    *)
(* stands for its bytes.                                                   *)
(***************************************************************************)
EXTENDS Naturals, FiniteSets

CONSTANTS Authors,
          PackValues,       \* values of a field of a pack, enough to differ
          MaxPublished,     \* packs signed
          MaxAlterations    \* changes to a pack on its way

\* MarketplaceMetadata without its signature, PluginPackage with its own
\* signature, and SkillDefinitions down to their step controls.
MetadataFields == {"pack_id", "author", "version", "compatible_version", "dependencies"}
PluginFields == {"plugin_id", "plugin_version", "abi_version", "entry_points",
                 "capabilities", "plugin_signature", "sbom", "wasm_module"}
SkillFields == {"schema_version", "skill_name", "steps", "max_retries",
                "on_success", "on_failure"}
PackFields == MetadataFields \cup PluginFields \cup SkillFields

\* Payload versions: before v1 signatures had no prefix; v1 lacked abi_version.
Versions == {"legacy", "v1", "v2"}

\* What verify_domain_pack and its keys are called here names no author.
ASSUME MarketAssumption ==
    Authors \cap {"none", "unsigned", "invalid_public_key", "unsupported_version",
                  "invalid_signature"} = {}

VARIABLES arrived,     \* the pack on its way, or NoPack
          signatures,  \* history: the [author, version, payload] ever signed
          authored,    \* history: the [author, content] of every published pack
          verdict,     \* what verify_domain_pack said of the pack that arrived
          alterations

packVars == <<arrived, signatures, authored, verdict, alterations>>

NoPack == [content |-> << >>]

Unsigned == [author |-> "nobody", version |-> "none", payload |-> << >>]

(* Mutant: the payload of v1, which left the ABI version out. *)
SignedFieldsV1(version) == PackFields \ {"abi_version"}

\* The fields a version's payload covers (domain_pack_signature_payload).
SignedFields(version) ==
    IF version = "v2" THEN PackFields ELSE PackFields \ {"abi_version"}

SignaturePayload(content, version) == [f \in SignedFields(version) |-> content[f]]

PackInit == /\ arrived = NoPack
            /\ signatures = {} /\ authored = {}
            /\ verdict = "none" /\ alterations = 0

\* An author signs a pack, today with v2 (encode_domain_pack_signature), with
\* an older version before, or leaves it unsigned.
Publish(author, content, version) ==
    LET signed == [author |-> author, version |-> version,
                   payload |-> SignaturePayload(content, version)]
        pack == [author |-> author, content |-> content]
    IN /\ arrived = NoPack
       /\ \A p \in authored: p # pack
       /\ signatures' = signatures \cup {signed}
       /\ authored' = authored \cup {pack}
       /\ \E signature \in signatures' \cup {Unsigned}:
             arrived' = [content |-> content, signature |-> signature]
       /\ UNCHANGED <<verdict, alterations>>

\* A field differs when the pack is read back, or the signature of another
\* published pack is beside it, or its prefix says another version.
AlterField(field, value) ==
    /\ arrived # NoPack /\ verdict = "none" /\ alterations < MaxAlterations
    /\ arrived' = [arrived EXCEPT !.content[field] = value]
    /\ alterations' = alterations + 1
    /\ UNCHANGED <<signatures, authored, verdict>>

AlterSignature(signature) ==
    /\ arrived # NoPack /\ verdict = "none" /\ alterations < MaxAlterations
    /\ arrived' = [arrived EXCEPT !.signature = signature]
    /\ alterations' = alterations + 1
    /\ UNCHANGED <<signatures, authored, verdict>>

\* Each check of verify_domain_pack in turn; the payload is always today's.
VerifyDomainPack(key) ==
    LET sig == arrived.signature
    IN /\ arrived # NoPack /\ verdict = "none"
       /\ verdict' = IF sig = Unsigned THEN "unsigned"
                     ELSE IF key = "invalid" THEN "invalid_public_key"
                     ELSE IF sig.version # "v2" THEN "unsupported_version"
                     ELSE IF /\ sig.author = key
                             /\ sig.payload = SignaturePayload(arrived.content, "v2")
                             /\ \E s \in signatures: s.author = key /\ s.payload = sig.payload
                     THEN key ELSE "invalid_signature"
       /\ UNCHANGED <<arrived, signatures, authored, alterations>>

\* The pack was installed or dropped; another one may come.
Settle == /\ verdict # "none"
          /\ arrived' = NoPack /\ verdict' = "none"
          /\ UNCHANGED <<signatures, authored, alterations>>

\* Contents are told apart from the first value in at most one field.
PackContents == {[f \in PackFields |-> 0]} \cup
                {[f \in PackFields |-> IF f = g THEN v ELSE 0]:
                    g \in {"version", "abi_version"}, v \in PackValues}

PackNext ==
    \/ \E author \in Authors, content \in PackContents, version \in Versions:
          Cardinality(authored) < MaxPublished /\ Publish(author, content, version)
    \/ \E field \in PackFields, value \in PackValues: AlterField(field, value)
    \/ \E s \in signatures, version \in Versions:
          AlterSignature([s EXCEPT !.version = version])
    \/ AlterSignature(Unsigned)
    \/ \E key \in Authors \cup {"invalid"}: VerifyDomainPack(key)
    \/ Settle

PackSpec == PackInit /\ [][PackNext]_packVars

(* verify_domain_pack accepts a pack under an author's key only when that   *)
(* author published exactly this pack: no field that changes what the pack  *)
(* does or with what it is compatible (the ABI version among them, since    *)
(* v2) can differ, whatever signature of whatever version is beside it.     *)
AcceptedIsAuthored ==
    verdict \in Authors =>
        [author |-> verdict, content |-> arrived.content] \in authored

-----------------------------------------------------------------------------
(* The strengthening that makes it inductive.                               *)

IsContent(content) == content = [f \in PackFields |-> content[f]]

(* A pack on its way has every field, whatever was changed in it.           *)
ArrivedOK ==
    IF arrived = NoPack THEN verdict = "none"
    ELSE /\ arrived = [content |-> arrived.content, signature |-> arrived.signature]
         /\ IsContent(arrived.content)

(* What was signed was published by its author, and is the payload of its   *)
(* version.                                                                 *)
SignaturesOK ==
    /\ \A p \in authored: IsContent(p.content)
    /\ \A s \in signatures:
          \E p \in authored: /\ p = [author |-> s.author, content |-> p.content]
                             /\ s.payload = SignaturePayload(p.content, s.version)
                             /\ s.version \in Versions

MarketInv == ArrivedOK /\ SignaturesOK /\ AcceptedIsAuthored
=============================================================================
