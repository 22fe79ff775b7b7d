------------------------------- MODULE Filter -------------------------------
(***************************************************************************)
(* The resource filter: from the command line flags, through what main()   *)
(* and newServer make of them, to the guests FilterResources keeps at each *)
(* update (main.go, filter.go).                                            *)
(*                                                                         *)
(* A guest is its type, its tags and its addresses.  A string given as a   *)
(* tag pattern stands for the set of tags Go's MatchString accepts for it, *)
(* and a CIDR for the set of addresses in it; what does not compile or     *)
(* does not parse is outside the domain of the respective function.        *)
(***************************************************************************)
EXTENDS Naturals, Sequences

CONSTANTS
  Tags,         \* tags of guests; "" is the tag of a guest without tags
  Strings,      \* strings given as tags and as tag patterns
  Matches,      \* Matches[s]: the tags s matches as a regular expression
  Addrs,        \* addresses of guests
  CIDRs,        \* strings given as CIDRs
  Within,       \* Within[c]: the addresses in the network c
  FlagSets,     \* command lines
  Inventories   \* sequences of guests

Flags == [type : {"", "QEMU", "LXC", "qemu", "lxc"},
          includeTags : SUBSET Strings, includeTagsRe : SUBSET Strings,
          excludeTags : SUBSET Strings, excludeTagsRe : SUBSET Strings,
          includeCIDRs : SUBSET CIDRs, excludeCIDRs : SUBSET CIDRs]

Guest == [type : {"QEMU", "LXC"}, tags : SUBSET Tags, addrs : SUBSET Addrs]

ASSUME MatchesAssumption ==
  /\ DOMAIN Matches \subseteq Strings
  /\ \A s \in DOMAIN Matches : Matches[s] \subseteq Tags
ASSUME WithinAssumption ==
  /\ DOMAIN Within \subseteq CIDRs
  /\ \A c \in DOMAIN Within : Within[c] \subseteq Addrs
ASSUME FilterInputAssumption ==
  FlagSets \subseteq Flags /\ Inventories \subseteq Seq(Guest)

VARIABLES
  flags,      \* the command line
  phase,      \* "tags", "filter" (newServer), "ready", "loop" (in
              \* FilterResources), or ended by a "panic" or a "fatal" error
  parsed,     \* parsedIncludeTagsRe and parsedExcludeTagsRe
  filt,       \* s.filt: the Filter, an empty set of patterns or networks for
              \* a nil regular expression or IPSet
  inventory,  \* the argument of FilterResources
  next,       \* index of the guest its loop is at
  filtered    \* its result so far

vars == <<flags, phase, parsed, filt, inventory, next, filtered>>

Parsed == [include : SUBSET Strings, exclude : SUBSET Strings]
NoneParsed == [include |-> {}, exclude |-> {}]

NoFilter == [type |-> "", includeTags |-> {}, includeTagsRe |-> {},
             excludeTags |-> {}, excludeTagsRe |-> {},
             includeCIDRs |-> {}, excludeCIDRs |-> {}]

TypeOK ==
  /\ flags \in FlagSets
  /\ phase \in {"tags", "filter", "ready", "loop", "panic", "fatal"}
  /\ parsed \in Parsed
  /\ filt \in Flags
  /\ inventory \in Inventories \cup {<<>>}
  /\ next \in 1..Len(inventory) + 1
  /\ filtered \in Seq(Guest)

Init ==
  /\ flags \in FlagSets
  /\ phase = "tags" /\ parsed = NoneParsed /\ filt = NoFilter
  /\ inventory = <<>> /\ next = 1 /\ filtered = <<>>
-----------------------------------------------------------------------------
(***************************************************************************)
(* Start.                                                                  *)
(***************************************************************************)
\* The flag each regular expression is compiled from.
RegexFlags ==
  [include |-> flags.includeTags, exclude |-> flags.excludeTags]

\* main() compiles the patterns; MustCompile panics.
CompileTags ==
  /\ phase = "tags"
  /\ IF RegexFlags.include \cup RegexFlags.exclude \subseteq DOMAIN Matches
     THEN phase' = "filter" /\ parsed' = RegexFlags
     ELSE phase' = "panic" /\ UNCHANGED parsed
  /\ UNCHANGED <<flags, filt, inventory, next, filtered>>

\* NewFilterConfigFromFlags and NewFilter.
MakeFilter ==
  /\ phase = "filter"
  /\ IF flags.includeCIDRs \cup flags.excludeCIDRs \subseteq DOMAIN Within
     THEN /\ phase' = "ready"
          /\ filt' = [flags EXCEPT !.includeTagsRe = parsed.include,
                                   !.excludeTagsRe = parsed.exclude]
     ELSE phase' = "fatal" /\ UNCHANGED filt
  /\ UNCHANGED <<flags, parsed, inventory, next, filtered>>
-----------------------------------------------------------------------------
(***************************************************************************)
(* FilterResources, once per update.                                       *)
(***************************************************************************)
\* combineRegexps and MatchString: some pattern matches the tag.
AnyMatches(patterns, tag) == \E p \in patterns : tag \in Matches[p]

AnyContains(networks, addr) == \E n \in networks : addr \in Within[n]

\* Mutant: all the tags are needed.
AllTagsNeeded(item) ==
  \/ filt.includeTags = {} /\ filt.includeTagsRe = {}
  \/ filt.includeTags \subseteq item.tags

shouldIncludeResourceByTags(item) ==
  \/ filt.includeTags = {} /\ filt.includeTagsRe = {}
  \/ filt.includeTags \cap item.tags # {}
  \/ \E tag \in item.tags : AnyMatches(filt.includeTagsRe, tag)

\* Mutant: only the combined regular expression is tried.
RegexOnly(item) == \E tag \in item.tags : AnyMatches(filt.excludeTagsRe, tag)

shouldExcludeResourceByTags(item) ==
  \/ filt.excludeTags \cap item.tags # {}
  \/ \E tag \in item.tags : AnyMatches(filt.excludeTagsRe, tag)

\* A guest without addresses is in no network.
shouldIncludeResourceByCIDRs(item) ==
  \/ filt.includeCIDRs = {}
  \/ \E addr \in item.addrs : AnyContains(filt.includeCIDRs, addr)

shouldExcludeResourceByCIDRs(item) ==
  \E addr \in item.addrs : AnyContains(filt.excludeCIDRs, addr)

Keep(item) ==
  /\ filt.type # "" => item.type = filt.type
  /\ shouldIncludeResourceByTags(item)
  /\ ~shouldExcludeResourceByTags(item)
  /\ shouldIncludeResourceByCIDRs(item)
  /\ ~shouldExcludeResourceByCIDRs(item)

CallFilterResources(items) ==
  /\ phase = "ready" /\ phase' = "loop"
  /\ inventory' = items /\ next' = 1 /\ filtered' = <<>>
  /\ UNCHANGED <<flags, parsed, filt>>

\* Mutant: the guest is put in front of those kept before it.
FilterItemInFront ==
  /\ phase = "loop" /\ next <= Len(inventory)
  /\ filtered' = IF Keep(inventory[next])
                 THEN <<inventory[next]>> \o filtered ELSE filtered
  /\ next' = next + 1
  /\ UNCHANGED <<flags, phase, parsed, filt, inventory>>

FilterItem ==
  /\ phase = "loop" /\ next <= Len(inventory)
  /\ filtered' = IF Keep(inventory[next])
                 THEN Append(filtered, inventory[next]) ELSE filtered
  /\ next' = next + 1
  /\ UNCHANGED <<flags, phase, parsed, filt, inventory>>

ReturnFiltered ==
  /\ phase = "loop" /\ next = Len(inventory) + 1
  /\ phase' = "ready"
  /\ UNCHANGED <<flags, parsed, filt, inventory, next, filtered>>
-----------------------------------------------------------------------------
Next ==
  \/ CompileTags \/ MakeFilter
  \/ \E items \in Inventories : CallFilterResources(items)
  \/ FilterItem \/ ReturnFiltered

Spec == Init /\ [][Next]_vars
-----------------------------------------------------------------------------
(***************************************************************************)
(* Properties of what FilterResources returns, in terms of the flags.      *)
(***************************************************************************)
Kept == {filtered[i] : i \in 1..Len(filtered)}

\* Exclusion has priority (filter.go:16-20): no guest with an excluded tag,
\* or with an address in an excluded network, is ever kept, whatever includes
\* it and however main() reads the tag flags.
ExclusionWins ==
  \A item \in Kept :
    /\ item.tags \cap flags.excludeTags = {}
    /\ \A addr \in item.addrs, c \in flags.excludeCIDRs : addr \notin Within[c]

\* A guest meets the flags, read without regular expressions, and none of its
\* tags is matched by an excluded tag read as one.  Of the two spellings of a
\* type in the documentation the one of README.md:90 is meant.
MeetsFlags(item) ==
  /\ flags.type \in {"", item.type}
  /\ flags.includeTags = {} \/ flags.includeTags \cap item.tags # {}
  /\ flags.excludeTags \cap item.tags = {}
  /\ \A tag \in item.tags : ~AnyMatches(flags.excludeTags, tag)
  /\ \/ flags.includeCIDRs = {}
     \/ \E addr \in item.addrs : AnyContains(flags.includeCIDRs, addr)
  /\ \A addr \in item.addrs : ~AnyContains(flags.excludeCIDRs, addr)

\* The places in the inventory the kept guests come from, in order.
Origins(from) ==
  /\ \A j, k \in 1..Len(filtered) : j < k => from[j] < from[k]
  /\ \A k \in 1..Len(filtered) : filtered[k] = inventory[from[k]]

\* The filter drops no guest that meets the flags, and changes neither the
\* order nor the number of those it keeps (filter.go:146-232).  Of two guests
\* of one name the zone answers with the later one (main.go:436-439, ZoneOf of
\* Zone), so the order decides what is served.
KeepsOrder ==
  \E from \in [1..Len(filtered) -> 1..Len(inventory)] :
    /\ Origins(from)
    /\ phase = "ready" /\ flags.includeTagsRe = {} =>
         \A i \in 1..Len(inventory) :
           MeetsFlags(inventory[i]) => \E k \in 1..Len(filtered) : from[k] = i

\* The regular expression flags are obeyed (README.md:92, README.md:94).
RegexFlagsObeyed ==
  \A item \in Kept :
    /\ flags.includeTagsRe # {} =>
         \/ item.tags \cap flags.includeTags # {}
         \/ \E tag \in item.tags : AnyMatches(flags.includeTagsRe, tag)
    /\ \A tag \in item.tags : ~AnyMatches(flags.excludeTagsRe, tag)
=============================================================================
