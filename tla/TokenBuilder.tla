---------------------------- MODULE TokenBuilder ----------------------------
(***************************************************************************)
(* The token-spec builder of src/token/builder.rs: the scalars of the      *)
(* header, the sections that follow it, and their offsets.                 *)
(***************************************************************************)
EXTENDS TokenClaims

CONSTANTS
  SPEC_MAX,           \* bound: KACS_TOKEN_SPEC_MAX_BYTES
  NAME_BYTES,         \* bound: the width of the source name
  TokSids,            \* bound: the byte strings passed as SIDs
  GidLists, Claims, LcsArgs, SourceNames   \* bounds: the other arguments, a claim with its list

\* The lists of claims a claim can be added to.
ClaimLists == {"user_claims", "device_claims"}

ASSUME TokenBuilderAssumption ==
  /\ TokSids \subseteq Seq(Int) /\ GidLists \subseteq Seq(Int)
  /\ \A c \in Claims : c[1] \in ClaimLists /\ encode_claim(c[2]) \in Seq(Int)

SPEC_HEADER == 192

\* The setters that only patch scalars into the header: the fields they patch, and
\* the argument each gets.
Scalars ==
  [privileges |-> [privs_present |-> 1, privs_enabled |-> 2],
   type |-> [token_type |-> 1, impersonation_level |-> 2],
   integrity |-> [integrity_rid |-> 1],
   session |-> [logon_session_id |-> 1],
   owner_index |-> [owner_sid_index |-> 1],
   primary_group_index |-> [primary_group_index |-> 1],
   mandatory_policy |-> [mandatory_policy |-> 1],
   projected_ids |-> [projected_uid |-> 1, projected_gid |-> 2],
   expiration |-> [expiration |-> 1],
   audit_policy |-> [audit_policy |-> 1],
   flags |-> [write_restricted |-> 1, user_deny_only |-> 0, isolation_boundary |-> 1,
              confinement_exempt |-> 0]]
ScalarFields == UNION {DOMAIN Scalars[op] : op \in DOMAIN Scalars} \cup {"source_id"}

SidLists == {"groups", "device_groups", "restricted_sids"}
Blobs == {"user_sid", "default_dacl", "confinement_sid", "lcs_credentials"}
Sections == SidLists \cup ClaimLists \cup Blobs \cup {"supp_gids"}

\* Mutant: the extension is not the last section.
LcsBeforeClaims ==
  <<"user_sid", "groups", "default_dacl", "device_groups", "restricted_sids",
    "confinement_sid", "supp_gids", "lcs_credentials", "user_claims", "device_claims">>

\* The order materialize places the sections in: the LCS extension has no length
\* field and must be the last.
Order ==
  <<"user_sid", "groups", "default_dacl", "device_groups", "restricted_sids",
    "confinement_sid", "supp_gids", "user_claims", "device_claims", "lcs_credentials">>

VARIABLES
  tok,                \* struct peios_token_builder
  tokAsked,           \* history: what the setter calls since the last reset ask for
  tokOut              \* the spec last given out or passed to kacs_create_token

tokVars == <<tok, tokAsked, tokOut>>

NoSpec == [data |-> <<>>]

new_token_builder ==
  [scalars |-> [f \in ScalarFields |-> 0], source_name |-> [i \in 1..NAME_BYTES |-> 0],
   data |-> [s \in Sections |-> <<>>],
   count |-> [s \in SidLists \cup {"supp_gids"} |-> 0],
   error |-> "none"]

NothingAsked ==
  [scalars |-> [f \in ScalarFields |-> 0], source_name |-> <<>>,
   lists |-> [s \in Sections |-> <<>>]]

TokInit == tok = new_token_builder /\ tokAsked = NothingAsked /\ tokOut = NoSpec

peios_token_builder_reset ==
  tok' = new_token_builder /\ tokAsked' = NothingAsked /\ tokOut' = NoSpec

\* Every setter returns at once when an error is latched.
Setter(asked, outcomes) ==
  /\ tok.error = "none"
  /\ tok' \in outcomes
  /\ tokAsked' = asked
  /\ tokOut' = NoSpec

Latched(errno) == [tok EXCEPT !.error = errno]

\* privileges, type, integrity, session, owner_index, primary_group_index,
\* mandatory_policy, projected_ids, expiration, audit_policy and flags.
PutScalars(op) ==
  LET patched(old) == [f \in ScalarFields |-> IF f \in DOMAIN Scalars[op] THEN Scalars[op][f] ELSE old[f]]
  IN  Setter([tokAsked EXCEPT !.scalars = patched(@)], {[tok EXCEPT !.scalars = patched(@)]})

\* flags with a NULL struct.
PutNoFlags == Setter([tokAsked EXCEPT !.scalars["write_restricted"] = Garbled], {Latched("EINVAL")})

\* Mutant: the field is not cleared under a shorter name.
NameOver(old, name) == [i \in 1..NAME_BYTES |-> IF i <= Len(name) THEN name[i] ELSE old[i]]

\* The name is cut at the field's width and zero-padded.
NameField(old, name) == [i \in 1..NAME_BYTES |-> IF i <= Len(name) THEN name[i] ELSE 0]

peios_token_builder_source(name, id) ==
  Setter([tokAsked EXCEPT !.source_name = name, !.scalars["source_id"] = id],
       {IF name = NullArg THEN Latched("EINVAL")
        ELSE [tok EXCEPT !.source_name = NameField(@, name), !.scalars["source_id"] = id]})

\* user, confinement and default_dacl: validate and keep a copy, replacing the last.
SetBlob(s, bytes, valid) ==
  Setter([tokAsked EXCEPT !.lists[s] = bytes],
       IF ~valid THEN {Latched("EINVAL")}
       ELSE {[tok EXCEPT !.data[s] = bytes], Latched("ENOMEM")})

peios_token_builder_user(sid) == SetBlob("user_sid", sid, sid_valid(sid))
peios_token_builder_confinement(sid) == SetBlob("confinement_sid", sid, sid_valid(sid))
peios_token_builder_default_dacl(acl_bytes) == SetBlob("default_dacl", acl_bytes, acl_valid(acl_bytes))

\* An entry of a list of SIDs; an allocation may fail
\* between the three parts of an entry.
add_sid_attrs(s, sid, attrs) ==
  LET length == Word(Len(sid), 4)
      entry == length \o sid \o Word(attrs, 4)
  IN  Setter([tokAsked EXCEPT !.lists[s] = Append(@, <<sid, attrs>>)],
           IF ~sid_valid(sid) THEN {Latched("EINVAL")}
           ELSE {[tok EXCEPT !.data[s] = @ \o entry, !.count[s] = @ + 1]}
                  \cup {[Latched("ENOMEM") EXCEPT !.data[s] = @ \o part] :
                          part \in {<<>>, length \o sid}})

peios_token_builder_add_group(sid, attrs) == add_sid_attrs("groups", sid, attrs)
peios_token_builder_add_restricted_sid(sid, attrs) == add_sid_attrs("restricted_sids", sid, attrs)
peios_token_builder_add_device_group(sid, attrs) == add_sid_attrs("device_groups", sid, attrs)

\* The list replaces the one before it.
peios_token_builder_supp_gids(gids) ==
  Setter([tokAsked EXCEPT !.lists["supp_gids"] = gids],
       IF gids = NullArg THEN {Latched("EINVAL")}
       ELSE {Latched("ENOMEM"),
             [tok EXCEPT !.data["supp_gids"] = Concat([i \in DOMAIN gids |-> Word(gids[i], 4)]),
                         !.count["supp_gids"] = Len(gids)]})

\* [entry_len][entry], appended in two parts.
add_claim(s, claim) ==
  LET entry == encode_claim(claim)
      length == Word(Len(entry), 4)
  IN  Setter([tokAsked EXCEPT !.lists[s] = Append(@, claim)],
           IF entry = <<>> THEN {Latched("EINVAL")}
           ELSE {[tok EXCEPT !.data[s] = @ \o length \o entry],
                 Latched("ENOMEM"), [Latched("ENOMEM") EXCEPT !.data[s] = @ \o length]})

peios_token_builder_lcs_credentials(creds) ==
  Setter([tokAsked EXCEPT !.lists["lcs_credentials"] = <<creds>>],
       IF encode_lcs(creds) = <<>> THEN {Latched("EINVAL")}
       ELSE {[tok EXCEPT !.data["lcs_credentials"] = encode_lcs(creds)], Latched("ENOMEM")})

Present(t, s) == IF s \in DOMAIN t.count THEN t.count[s] > 0 ELSE t.data[s] # <<>>

\* The sections one after the other, each with its absolute offset, 0 when absent.
TokRendered(t) ==
  LET part == [i \in DOMAIN Order |-> IF Present(t, Order[i]) THEN t.data[Order[i]] ELSE <<>>]
      start == Starts(part, SPEC_HEADER)
      index(s) == CHOOSE i \in DOMAIN Order : Order[i] = s
  IN  [scalars |-> t.scalars, source_name |-> t.source_name,
       off |-> [s \in Sections |-> IF Present(t, s) THEN start[index(s)] ELSE 0],
       num |-> [s \in Sections |-> IF s \in DOMAIN t.count THEN t.count[s] ELSE Len(t.data[s])],
       data |-> Concat(part)]

\* Mutant: the error of an earlier call is reported as a failure to allocate.
TokMaterializeLatest(t, spec) ==
  IF t.error # "none" THEN {"ENOMEM"}
  ELSE {"ENOMEM", IF SPEC_HEADER + Len(spec.data) > SPEC_MAX THEN "EINVAL" ELSE "none"}

\* The errors materialize can meet; "none" is success.
TokMaterialize(t, spec) ==
  IF t.error # "none" THEN {t.error}
  ELSE {"ENOMEM", IF SPEC_HEADER + Len(spec.data) > SPEC_MAX THEN "EINVAL" ELSE "none"}

\* peios_token_builder_bytes, and peios_token_builder_create, that passes the
\* same bytes to the kernel; an error is latched.
TokTake ==
  LET spec == TokRendered(tok)
  IN  \E errno \in TokMaterialize(tok, spec) :
        /\ tok' = [tok EXCEPT !.error = errno]
        /\ tokOut' = IF errno = "none" THEN spec ELSE NoSpec
        /\ UNCHANGED tokAsked

\* The ACLs are bytes the caller has.
TokCalls(acls) ==
  \/ peios_token_builder_reset
  \/ \E op \in DOMAIN Scalars : PutScalars(op)
  \/ PutNoFlags
  \/ \E name \in SourceNames : peios_token_builder_source(name, 1)
  \/ \E sid \in TokSids :
       \/ peios_token_builder_user(sid) \/ peios_token_builder_confinement(sid)
       \/ \E attrs \in {7, 14} : peios_token_builder_add_group(sid, attrs)
       \/ peios_token_builder_add_restricted_sid(sid, 7) \/ peios_token_builder_add_device_group(sid, 7)
  \/ \E bytes \in acls : peios_token_builder_default_dacl(bytes)
  \/ \E gids \in GidLists : peios_token_builder_supp_gids(gids)
  \/ \E c \in Claims : add_claim(c[1], c[2])
  \/ \E creds \in LcsArgs : peios_token_builder_lcs_credentials(creds)

-----------------------------------------------------------------------------
(* The spec as the kernel reads it. *)

\* count entries [len][sid][attrs] from an offset.
SidEntries(b, off, count) ==
  LET walk[i \in Nat, p \in Int] ==
        LET len == At(b, p, 4)
        IN  IF i = 0 THEN <<>>
            ELSE IF len < 0 THEN <<<<>>>>
            ELSE <<<<Slice(b, p + 4, len), At(b, p + 4 + len, 4)>>>>
                   \o walk[i - 1, p + 8 + len]
  IN  walk[count, off]

\* Entries [len][claim] that fill a slice.
ClaimEntries(b) ==
  LET walk[p \in Nat] ==
        LET len == At(b, p, 4)
        IN  IF p = Len(b) THEN <<>>
            ELSE IF len < 0 \/ p + 4 + len > Len(b) THEN <<NoClaim>>
            ELSE <<ClaimParse(Slice(b, p + 4, len))>> \o walk[p + 4 + len]
  IN  walk[0]

SpecParse(spec) ==
  LET off(s) == spec.off[s] - SPEC_HEADER
      bytes(s) == Slice(spec.data, off(s), spec.num[s])
      rest(s) == Slice(spec.data, off(s), Len(spec.data) - off(s))
      read(s) ==
        CASE spec.off[s] = 0 -> <<>>
          [] s = "user_sid" -> SidBytes(SidAt(spec.data, off(s)))
          [] s \in {"default_dacl", "confinement_sid"} -> bytes(s)
          [] s \in SidLists -> SidEntries(spec.data, off(s), spec.num[s])
          [] s = "supp_gids" -> [i \in 1..spec.num[s] |-> At(spec.data, off(s) + 4 * (i - 1), 4)]
          [] s \in ClaimLists -> ClaimEntries(bytes(s))
          [] OTHER -> <<LcsParse(rest(s))>>
  IN  [scalars |-> spec.scalars,
       source_name |-> SelectSeq(spec.source_name, LAMBDA ch : ch # 0),
       lists |-> [s \in Sections |-> read(s)]]
=============================================================================
