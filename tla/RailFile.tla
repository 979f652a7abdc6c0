------------------------------ MODULE RailFile ------------------------------
(***************************************************************************)
(* rail.toml as datarail-spec reads it: lines into a (section, key) map,   *)
(* the map into a RailSpec, and key references through the environment,    *)
(* key files and the key resolver of datarail-keymgmt.  A line is already  *)
(* lexed: what a value's text stands for (bytes of a length, a reference   *)
(* with its scheme and locator) is given by tables over a few texts.  A    *)
(* file is a complete one with some lines edited.                          *)
(***************************************************************************)
EXTENDS Integers, Sequences, FiniteSets, SequencesExt

CONSTANTS MaxEdits  \* how many lines of the file are edited

VARIABLES
  lines,        \* the file
  edits,        \* how many edits were made
  environment,  \* the variables and the key files: locator to text, "unset" when absent
  outcome       \* <<>>, or [ok, spec]

railVars == <<lines, edits, environment, outcome>>

-----------------------------------------------------------------------------
(* Values and lines. *)

Str(text) == [t |-> "str", text |-> text, n |-> 0]
Number(n) == [t |-> "int", text |-> "", n |-> n]
Bad == [t |-> "bad", text |-> "", n |-> 0]

Section(name) == [kind |-> "section", name |-> name, value |-> Bad]
Pair(key, value) == [kind |-> "pair", name |-> key, value |-> value]
Unterminated == [kind |-> "unterminated", name |-> "", value |-> Bad]
NoEquals == [kind |-> "no_equals", name |-> "", value |-> Bad]

\* from_hex: the length in bytes of a text read as hexadecimal, -1 when it is not.
from_hex(text) ==
  CASE text \in {"route", "stream", "0x"} -> 16
    [] text \in {"seed_a", "seed_b"} -> 32
    [] text = "short" -> 1
    [] OTHER -> -1

\* A reference's scheme and locator; <<>> without a colon.
split_once(text) ==
  CASE text = "env:SEED" -> <<"env", "SEED">>
    [] text = "env:1BAD" -> <<"env", "1BAD">>
    [] text = "file:key" -> <<"file", "key">>
    [] text = "file:../key" -> <<"file", "../key">>
    [] text = "age:key" -> <<"age", "key">>
    [] text = "vault:key" -> <<"vault", "key">>
    [] OTHER -> <<>>

Locators == {"SEED", "1BAD", "key", "../key", "age:key", "DATARAIL_AGE:KEY"}

-----------------------------------------------------------------------------
(* parse_raw. *)

ReadLine(st, line) ==
  CASE ~st.ok -> st
    [] line.kind = "section" -> [st EXCEPT !.section = line.name]
    [] line.kind = "pair" ->
         IF \/ st.section = "" \/ line.value.t = "bad"
            \/ \E e \in st.map : e.section = st.section /\ e.key = line.name
         THEN [st EXCEPT !.ok = FALSE]
         ELSE [st EXCEPT !.map = @ \cup {[section |-> st.section, key |-> line.name, value |-> line.value]}]
    [] OTHER -> [st EXCEPT !.ok = FALSE]

parse_raw(src) == FoldLeft(ReadLine, [ok |-> TRUE, section |-> "", map |-> {}], src)

-----------------------------------------------------------------------------
(* Typed extraction. *)

Has(map, section, key) == \E e \in map : e.section = section /\ e.key = key
get(map, section, key) == (CHOOSE e \in map : e.section = section /\ e.key = key).value

Got(text) == [ok |-> TRUE, text |-> text]
Rejected == [ok |-> FALSE, text |-> ""]

get_str(map, section, key) ==
  IF Has(map, section, key) /\ get(map, section, key).t = "str" THEN Got(get(map, section, key).text) ELSE Rejected

get_bytes(map, section, key, len) ==
  LET s == get_str(map, section, key) IN IF s.ok /\ from_hex(s.text) = len THEN s ELSE Rejected

valid_env_name(locator) == locator = "SEED"

\* KeyResolver::resolve over the file provider (added last, so asked first) and
\* the environment provider: the first that has the key decides.
resolver(reference) ==
  LET var == IF reference = "age:key" THEN "DATARAIL_AGE:KEY" ELSE "1BAD"
      Decoded(text) == IF from_hex(text) = 32 THEN Got(text) ELSE Rejected
  IN IF reference \in Locators /\ environment[reference] # "unset" THEN Decoded(environment[reference])
     ELSE IF environment[var] # "unset" THEN Decoded(environment[var])
     ELSE Rejected

resolve_key_ref(reference) ==
  LET r == split_once(reference)
      found == CASE r = <<>> -> Rejected
                 [] r # <<>> /\ r[1] = "env" ->
                      IF valid_env_name(r[2]) /\ environment[r[2]] # "unset" THEN Got(environment[r[2]]) ELSE Rejected
                 [] r # <<>> /\ r[1] = "file" ->
                      IF r[2] # "../key" /\ environment[r[2]] # "unset" THEN Got(environment[r[2]]) ELSE Rejected
                 [] r # <<>> /\ r[1] = "age" -> resolver(reference)
                 [] OTHER -> Rejected
  IN IF found.ok /\ from_hex(found.text) = 32 THEN found ELSE Rejected

RefKey(key) ==
  CASE key = "source_seed" -> "source_seed_ref" [] key = "dest_seed" -> "dest_seed_ref"
    [] key = "dest_x25519_secret" -> "dest_x25519_secret_ref" [] key = "tenant_secret" -> "tenant_secret_ref"

\* The inline value is used when the reference cannot be resolved.
get_key_bytes_falling_back(map, key) ==
  LET ref == get_str(map, "keys", RefKey(key))
  IN IF ref.ok /\ resolve_key_ref(ref.text).ok THEN resolve_key_ref(ref.text) ELSE get_bytes(map, "keys", key, 32)

get_key_bytes(map, key) ==
  IF Has(map, "keys", RefKey(key))
  THEN LET ref == get_str(map, "keys", RefKey(key))
       IN IF ref.ok THEN resolve_key_ref(ref.text) ELSE Rejected
  ELSE get_bytes(map, "keys", key, 32)

\* A plain prefix is taken as it is, one starting "0x" must be hexadecimal.
get_prefix(map, section) ==
  LET s == get_str(map, section, "required_prefix") IN IF s.text = "0xzz" THEN Rejected ELSE s

contract_spec(map, section) ==
  LET raw == IF Has(map, section, "max_record_len") THEN get(map, section, "max_record_len") ELSE Bad
  IN IF raw.t = "int" /\ raw.n > 0 THEN get_prefix(map, section) ELSE Rejected

Aeads == {"gcm-siv-256", "chacha20-poly1305", "gcm-256"}

SecretKeys == {"source_seed", "dest_seed", "dest_x25519_secret", "tenant_secret"}
SpecFields == {"aead", "route_id", "stream_id", "guarantee", "substrate", "onboarding", "offloading"} \cup SecretKeys

Field(map, f) ==
  CASE f = "aead" -> LET a == get_str(map, "route", "aead") IN IF a.text \in Aeads THEN a ELSE Rejected
    [] f \in {"route_id", "stream_id"} -> get_bytes(map, "route", f, 16)
    [] f = "guarantee" -> get_str(map, "route", f)
    [] f = "substrate" -> LET s == get_str(map, "route", f) IN IF s.ok THEN s ELSE Got("loopback")
    [] f \in SecretKeys -> get_key_bytes(map, f)
    [] f \in {"onboarding", "offloading"} -> contract_spec(map, f)

parse(src) ==
  LET raw == parse_raw(src)
      field == [f \in SpecFields |-> Field(raw.map, f)]
      ok == raw.ok /\ \A f \in SpecFields : field[f].ok
  IN [ok |-> ok, spec |-> [f \in SpecFields |-> IF ok THEN field[f].text ELSE ""]]

-----------------------------------------------------------------------------

Complete ==
  <<Section("route"), Pair("route_id", Str("route")), Pair("stream_id", Str("stream")), Pair("aead", Str("gcm-256")),
    Pair("guarantee", Str("exactly-once")),
    Section("onboarding"), Pair("max_record_len", Number(1)), Pair("required_prefix", Str("evt:")),
    Section("offloading"), Pair("max_record_len", Number(1)), Pair("required_prefix", Str("evt:")),
    Section("keys"), Pair("source_seed", Str("seed_a")), Pair("dest_seed", Str("seed_a")),
    Pair("dest_x25519_secret", Str("seed_a")), Pair("tenant_secret", Str("seed_a"))>>

\* The lines an edit may put in.
EditLines ==
  {Unterminated, NoEquals, Section("keys"), Pair("route_id", Str("short")), Pair("aead", Str("none")),
   Pair("substrate", Str("tcp")), Pair("substrate", Number(1)), Pair("source_seed", Str("seed_b")), Pair("dest_seed", Bad),
   Pair("max_record_len", Number(0)), Pair("required_prefix", Str("0xzz"))}
  \cup {Pair("source_seed_ref", v) : v \in {Number(1)} \cup
          {Str(r) : r \in {"env:SEED", "env:1BAD", "file:key", "file:../key", "age:key", "vault:key", "plain"}}}

RailInit ==
  /\ lines = Complete /\ edits = 0 /\ outcome = <<>>
  /\ environment \in {[l \in Locators |-> IF l \in set THEN "seed_b" ELSE "unset"] :
                        set \in {{}, {"SEED"}, {"key"}, {"age:key"}, {"DATARAIL_AGE:KEY", "1BAD", "../key"}}}
       \cup {[l \in Locators |-> IF l = "SEED" THEN "short" ELSE "unset"]}

Edited == edits < MaxEdits /\ edits' = edits + 1 /\ UNCHANGED <<environment, outcome>>

DropLine == outcome = <<>> /\ Edited /\ \E i \in DOMAIN lines : lines' = RemoveAt(lines, i)

\* At the top, below a header or at the end: where in a section a line stands is all one.
InsertLine ==
  /\ outcome = <<>> /\ Edited
  /\ \E i \in {1, Len(lines) + 1} \cup {j + 1 : j \in {h \in DOMAIN lines : lines[h].kind = "section"}}, l \in EditLines :
       lines' = InsertAt(lines, i, l)

ReadSpec == outcome = <<>> /\ outcome' = <<parse(lines)>> /\ UNCHANGED <<lines, edits, environment>>

RailNext == DropLine \/ InsertLine \/ ReadSpec

-----------------------------------------------------------------------------

\* The lines that set a key: those below the last header of its section.
Under(i) == LET above == {j \in 1 .. i : lines[j].kind = "section"}
            IN IF above = {} THEN "" ELSE lines[CHOOSE j \in above : \A h \in above : h <= j].name

Setting(section, key) == {i \in DOMAIN lines : lines[i].kind = "pair" /\ lines[i].name = key /\ Under(i) = section}

HomeOf(f) == IF f \in SecretKeys THEN "keys" ELSE IF f \in {"onboarding", "offloading"} THEN f ELSE "route"

\* A RailSpec says what its file says: a file that is accepted sets no key of a section
\* twice, and every field read from the file has the value of the one line that sets it,
\* wherever that line stands (parse_raw and the getters).
SpecIsTheFile ==
  outcome # <<>> /\ outcome[1].ok =>
    /\ \A i, j \in DOMAIN lines :
         i # j /\ lines[i].kind = "pair" /\ lines[j].kind = "pair" /\ lines[i].name = lines[j].name => Under(i) # Under(j)
    /\ \A f \in SpecFields \ {"onboarding", "offloading"} :
         \A i \in Setting(HomeOf(f), f) :
           \/ lines[i].value.text = outcome[1].spec[f]
           \/ f = "substrate" /\ lines[i].value.t # "str"
           \/ f \in SecretKeys /\ Setting("keys", RefKey(f)) # {}

\* A key given by reference is the referenced material: a reference that cannot be
\* resolved fails the file and is never replaced by the inline demo value beside it
\* (get_key_bytes, resolve_key_ref).
ReferencesDecide ==
  outcome # <<>> /\ outcome[1].ok =>
    \A f \in SecretKeys : \A i \in Setting("keys", RefKey(f)) :
      \E l \in Locators : environment[l] = outcome[1].spec[f] /\ outcome[1].spec[f] = "seed_b"

\* A rail.toml that is accepted means what it says, keys given by reference
\* included.
RailFileInv == SpecIsTheFile /\ ReferencesDecide
=============================================================================
