------------------------------- MODULE Names -------------------------------
(***************************************************************************)
(* The names that tie the metadata to the archives: the file name of an    *)
(* archive (src/src/provider.rs), the checks the metadata store makes of   *)
(* addresses and packages (src/src/metadata.rs) and the checks the archive *)
(* store makes of a key (src/src/storage.rs).  A name is a sequence of     *)
(* separators and words; lengths are left out.  A Result is a set, {x} for *)
(* Ok(x) and {} for an error.                                              *)
(***************************************************************************)
EXTENDS Integers, Sequences, FiniteSets

(* The words by their characters; "terraform-provider-" is one token. *)
LowerWords == {"v", "rc", "linux", "bin", "zip", "a", "b"}
DigitWords == LowerWords \cup {"1", "amd64"}
Words == DigitWords \cup {"Linux"}
Separators == {"-", "_", ".", "+", "/"}
Made(s, tokens) == \A i \in DOMAIN s : s[i] \in tokens

(* semver::Version::parse, for versions whose numbers are all 1 and whose  *)
(* pre-release or build has no dots.                                       *)
IsSemver(s) ==
  /\ Len(s) >= 5 /\ SubSeq(s, 1, 5) = <<"1", ".", "1", ".", "1">>
  /\ Len(s) > 5 => /\ s[6] \in {"-", "+"} /\ Len(s) > 6
                   /\ Made(SubSeq(s, 7, Len(s)), Words \cup {"-"})

(* strip_prefix('v').unwrap_or(value): normalize_version in metadata.rs. *)
normalize_version(s) == IF s /= <<>> /\ s[1] = "v" THEN Tail(s) ELSE s

StripPrefix(prefix, s) ==
  IF Len(prefix) <= Len(s) /\ SubSeq(s, 1, Len(prefix)) = prefix
  THEN {SubSeq(s, Len(prefix) + 1, Len(s))} ELSE {}
StripSuffix(suffix, s) ==
  IF Len(suffix) <= Len(s) /\ SubSeq(s, Len(s) - Len(suffix) + 1, Len(s)) = suffix
  THEN {SubSeq(s, 1, Len(s) - Len(suffix))} ELSE {}

split3(s, separator) ==
  {[version |-> SubSeq(s, 1, p[1] - 1), os |-> SubSeq(s, p[1] + 1, p[2] - 1),
    arch |-> SubSeq(s, p[2] + 1, Len(s))] :
     p \in {q \in (1..Len(s)) \X (1..Len(s)) :
              /\ q[1] < q[2] /\ s[q[1]] = separator /\ s[q[2]] = separator
              /\ \A i \in 1..(q[2] - 1) : s[i] = separator => i = q[1]}}

(* rsplitn(3, separator), when it yields three fields. *)
rsplit3(s, separator) ==
  {[version |-> SubSeq(s, 1, p[1] - 1), os |-> SubSeq(s, p[1] + 1, p[2] - 1),
    arch |-> SubSeq(s, p[2] + 1, Len(s))] :
     p \in {q \in (1..Len(s)) \X (1..Len(s)) :
              /\ q[1] < q[2] /\ s[q[1]] = separator /\ s[q[2]] = separator
              /\ \A i \in (q[1] + 1)..Len(s) : s[i] = separator => i = q[2]}}

from_parts(p) ==
  {[x EXCEPT !.version = normalize_version(@)] :
     x \in {y \in {p} : /\ Made(y.os, LowerWords) /\ Made(y.arch, DigitWords)
                        /\ IsSemver(normalize_version(y.version))}}

(* The two forms of a name: with underscores, or with dashes and "-bin". *)
parse(type, archive) ==
  LET remainder == UNION {StripSuffix(<<".", "zip">>, r) :
                            r \in StripPrefix(<<"terraform-provider-">> \o type, archive)}
      underscored == UNION {StripPrefix(<<"_">>, r) : r \in remainder}
      dashed == UNION {StripSuffix(<<"-", "bin">>, r) :
                         r \in UNION {StripPrefix(<<"-">>, s) : s \in remainder}}
      fields == UNION ({rsplit3(r, "_") : r \in underscored}
                         \cup {rsplit3(r, "-") : r \in dashed})
  IN UNION {from_parts(p) : p \in fields}

-----------------------------------------------------------------------------
(* metadata.rs: what a namespace or a type, and a version, may be. *)
valid_component(s) == /\ s /= <<>> /\ Made(s, Words \cup {"-", "_", "."})
                      /\ s \notin {<<".">>, <<".", ".">>}

valid_version(s) == /\ s /= <<>> /\ Made(s, Words \cup {".", "-", "+"})
                    /\ s \notin {<<".">>, <<".", ".">>}

validate_version(s) == valid_version(normalize_version(s))

(* A package of the registry fits the version and platform it was asked    *)
(* for; its checksum and its URL are well formed, or not.                  *)
validate_package(key, requested, package) ==
  /\ package.os = requested.os /\ package.arch = requested.arch
  /\ \E archive \in parse(key.type, package.filename) :
       /\ archive.version = key.version
       /\ archive.os = requested.os /\ archive.arch = requested.arch
  /\ package.shasum_ok /\ package.url_ok

(* storage.rs: its valid_component allows no dot. *)
storage_valid_component(s) == s /= <<>> /\ Made(s, Words \cup {"-", "_"})

validate_key(type, filename) ==
  /\ storage_valid_component(type)
  /\ Made(filename, Words \cup {"terraform-provider-"} \cup (Separators \ {"/"}))
  /\ parse(type, filename) /= {}

-----------------------------------------------------------------------------
(* The reference: how an archive may be spelled. *)
Versions3 == <<"1", ".", "1", ".", "1">>
Types == {<<"a">>, <<"a", "-", "b">>, <<"a", "_", "b">>, <<"a", ".", "b">>}
SomeVersions == {Versions3, Versions3 \o <<"-", "rc">>, Versions3 \o <<"-", "rc", "-", "1">>,
                 Versions3 \o <<"+", "b">>}
Parts == [version : SomeVersions, os : {<<"linux">>, <<"b">>}, arch : {<<"amd64">>, <<"a">>}]
Spellings(type, p) ==
  UNION {{<<"terraform-provider-">> \o type \o <<"_">> \o v \o <<"_">> \o p.os
            \o <<"_">> \o p.arch \o <<".", "zip">>,
          <<"terraform-provider-">> \o type \o <<"-">> \o v \o <<"-">> \o p.os
            \o <<"-">> \o p.arch \o <<"-", "bin", ".", "zip">>} :
         v \in {p.version, <<"v">> \o p.version}}
GoodNames(type) == UNION {Spellings(type, p) : p \in Parts}
Dropped(name) ==
  {SubSeq(name, 1, i - 1) \o SubSeq(name, i + 1, Len(name)) : i \in DOMAIN name}
Replaced(name) ==
  UNION {{[name EXCEPT ![i] = t] : t \in {"-", "_", "/", "v", "1", "Linux"}} : i \in DOMAIN name}
NearNames(name) == Dropped(name) \cup Replaced(name)

(* parse() reads every spelling of an archive back, of its own type only,  *)
(* and what it reads from any other name is a spelling too.                *)
ArchiveNamesExact ==
  /\ \A type \in Types, p \in Parts : \A name \in Spellings(type, p) :
       \A other \in Types : parse(other, name) = IF other = type THEN {p} ELSE {}
  /\ \A type \in {<<"a">>, <<"a", "-", "b">>}, good \in GoodNames(<<"a">>) :
       \A name \in NearNames(good) : \A p \in parse(type, name) :
         /\ IsSemver(p.version) /\ Made(p.os, LowerWords) /\ Made(p.arch, DigitWords)
         /\ name \in Spellings(type, p)

(* A package the metadata store accepts for a version is found again under *)
(* that version by its file name, and the archive store takes its key,     *)
(* unless the provider's type has a dot in it.                             *)
PackagesServable ==
  \A type \in Types, v \in SomeVersions \cup {<<"v">> \o Versions3, <<"1", ".", "1">>},
     p \in Parts : \A name \in Spellings(type, p) :
       LET key == [type |-> type, version |-> normalize_version(v)]
           requested == [os |-> p.os, arch |-> p.arch]
           package == [os |-> p.os, arch |-> p.arch, filename |-> name,
                       shasum_ok |-> TRUE, url_ok |-> TRUE]
       IN /\ validate_package(key, requested, package) <=> p.version = key.version
          /\ valid_component(type) /\ validate_version(v)
               /\ validate_package(key, requested, package) =>
               /\ \A a \in parse(type, name) :
                    validate_version(a.version) /\ normalize_version(a.version) = key.version
               /\ validate_key(type, name) <=> ~\E i \in DOMAIN type : type[i] = "."
=============================================================================
