----------------------------- MODULE LookupTables -----------------------------
(***************************************************************************)
(* One instance of an exact, an lpm and a ternary lookup table             *)
(* (dpdk_tables.c, ternary_naive.c), driven by the calls of the control    *)
(* plane and of the static load.  rte_hash and rte_lpm tell where a key or *)
(* a rule is; the values are kept beside them, in an array of TABLE_MAX    *)
(* pointers that is indexed with numbers that may exceed it.               *)
(*                                                                         *)
(* Calls are numbered, and the value given to a call is its number.  No    *)
(* operation takes an entry away.  Keys are compared as wholes; lpm        *)
(* addresses are numbers of LpmBits bits, ternary keys sets of set bits.   *)
(***************************************************************************)
EXTENDS Integers, Sequences, FiniteSets

CONSTANTS
  TABLE_MAX,    \* pointers in content; also the values of the byte size
  Keys,         \* keys of the exact table
  MaxSizes,     \* max_size of the exact tables: entries of an rte_hash
  BucketEntries,\* RTE_HASH_BUCKET_ENTRIES
  LpmBits,      \* bits of an lpm address
  Rules,        \* prefixes that may be added: ip and depth
  MaxRules,     \* max_size of the lpm table: rules of the rte_lpm
  Bits,         \* bits of a ternary key
  Patterns,     \* ternary entries that may be added: key and mask
  AclEntries,   \* how many the static load adds, all before any lookup
  MaxCalls      \* bound: calls

Addresses == 0 .. 2 ^ LpmBits - 1
Index     == 0 .. TABLE_MAX - 1

ASSUME LookupAssumption ==
  /\ TABLE_MAX \in Nat \ {0} /\ MaxSizes \subseteq Nat \ {0}
  /\ BucketEntries \in Nat \ {0}
  /\ LpmBits \in Nat \ {0} /\ MaxRules \in Nat
  /\ \A r \in Rules : r.ip \in Addresses /\ r.depth \in 1 .. LpmBits
  /\ \A p \in Patterns : p.key \subseteq p.mask /\ p.mask \subseteq Bits
  /\ AclEntries \in Nat /\ MaxCalls \in Nat

VARIABLES
  max_size,      \* of the exact table
  position,      \* rte_hash: where each key is
  free_slots,    \* rte_hash: the ring of the positions no key has
  refused,       \* history: the exact_add calls that rte_hash refused
  content,       \* of the exact table; 0 is a pointer never set
  rules,         \* rte_lpm: the number stored with each rule
  lpm_content,
  size,          \* extended_table_t.size of the lpm table, a byte
  entries,       \* of the ternary table, in the order of their addition
  default_val,   \* of each table; 0 is the null pointer
  running,       \* FALSE: rte_exit was called
  calls          \* every call so far

exactvars == <<max_size, position, free_slots, refused, content>>
lpmvars   == <<rules, lpm_content, size>>
lookupvars == <<exactvars, lpmvars, entries, default_val, running, calls>>

Tables == {"exact", "lpm", "ternary"}

-----------------------------------------------------------------------------

LookupInit == /\ max_size \in MaxSizes
              /\ position = <<>>
              /\ free_slots = [i \in 1 .. max_size |-> i - 1]
              /\ refused = {}
              /\ content = [i \in Index |-> 0]
              /\ rules = <<>>
              /\ lpm_content = [i \in Index |-> 0]
              /\ size = 0
              /\ entries = <<>>
              /\ default_val = [t \in Tables |-> 0]
              /\ running = TRUE
              /\ calls = <<>>

\* A call, whose value is its number.
call(c) == /\ running
           /\ Len(calls) < MaxCalls
           /\ calls' = Append(calls, c)

value == Len(calls')

\* A function with one more, or one changed, point.
with(f, x, y) == [z \in DOMAIN f \union {x} |-> IF z = x THEN y ELSE f[z]]

-----------------------------------------------------------------------------
(* Adding.                                                                 *)

\* What rte_hash_add_key returns when it refuses a call is -ENOSPC, -28.
\* index is a uint32_t: the test for a failure is never true, and the number
\* modulo TABLE_MAX, a power of two, is this one.
no_space == (-28) % TABLE_MAX

\* The first free slot goes to the end of the ring.
put_back == free_slots' = Append(Tail(free_slots), Head(free_slots))

\* The first free slot is taken before the key is looked for, and put back
\* when the key turns out to be there.  A new key keeps it, unless no bucket
\* can take the key, which only a hash with a full bucket can say.
rte_hash_add_key(key) ==
  \/ /\ free_slots = <<>>
     /\ refused' = refused \union {value}
     /\ UNCHANGED <<position, free_slots>>
  \/ /\ free_slots # <<>> /\ key \in DOMAIN position
     /\ put_back
     /\ UNCHANGED <<position, refused>>
  \/ /\ free_slots # <<>> /\ key \notin DOMAIN position
     /\ position' = with(position, key, Head(free_slots))
     /\ free_slots' = Tail(free_slots)
     /\ UNCHANGED refused
  \/ /\ free_slots # <<>> /\ key \notin DOMAIN position
     /\ Cardinality(DOMAIN position) >= BucketEntries
     /\ put_back
     /\ refused' = refused \union {value}
     /\ UNCHANGED position

exact_add(key) ==
  /\ call([fun |-> "exact_add", key |-> key])
  /\ rte_hash_add_key(key)
  /\ LET index == IF value \in refused' THEN no_space
                  ELSE position'[key] % TABLE_MAX
     IN  content' = [content EXCEPT ![index] = value]
  /\ UNCHANGED <<max_size, lpmvars, entries, default_val, running>>

incremented == (size + 1) % TABLE_MAX

\* Seeded bug: the rule is numbered with the size after the addition.
number_after == incremented

\* The number stored with a rule.
number == size

\* Every addition takes the next number, one of an old rule too.  rte_lpm_add
\* changes an old rule and refuses a new one beyond max_rules.
lpm_add(rule) ==
  /\ call([fun |-> "lpm_add", key |-> rule])
  /\ lpm_content' = [lpm_content EXCEPT ![size] = value]
  /\ size' = incremented
  /\ \/ /\ rule \in DOMAIN rules \/ Cardinality(DOMAIN rules) < MaxRules
        /\ rules' = with(rules, rule, number)
        /\ UNCHANGED running
     \/ /\ rule \notin DOMAIN rules /\ Cardinality(DOMAIN rules) >= MaxRules
        /\ running' = FALSE
        /\ UNCHANGED rules
  /\ UNCHANGED <<exactvars, entries, default_val>>

\* The array of the entries is never asked whether it is full: only the
\* static load adds, and it stays inside.
ternary_add(pattern) ==
  /\ Len(entries) < AclEntries
  /\ call([fun |-> "ternary_add", key |-> pattern])
  /\ entries' = Append(entries, [key |-> pattern.key, mask |-> pattern.mask,
                                 value |-> value])
  /\ UNCHANGED <<exactvars, lpmvars, default_val, running>>

table_setdefault(t) ==
  /\ call([fun |-> "table_setdefault", key |-> t])
  /\ default_val' = [default_val EXCEPT ![t] = value]
  /\ UNCHANGED <<exactvars, lpmvars, entries, running>>

LookupNext == \/ \E key \in Keys : exact_add(key)
              \/ \E rule \in Rules : lpm_add(rule)
              \/ \E pattern \in Patterns : ternary_add(pattern)
              \/ \E t \in Tables : table_setdefault(t)

LookupSpec == LookupInit /\ [][LookupNext]_lookupvars

-----------------------------------------------------------------------------
(* Looking up.                                                             *)

\* Seeded bug: position zero is taken for a miss.
exact_lookup_from_1(key) ==
  IF key \in DOMAIN position /\ position[key] > 0
  THEN content[position[key] % TABLE_MAX]
  ELSE default_val["exact"]

exact_lookup(key) ==
  IF key \in DOMAIN position THEN content[position[key] % TABLE_MAX]
  ELSE default_val["exact"]

\* The rules whose prefix an address has.
covers(rule, ip) ==
  LET low == 2 ^ (LpmBits - rule.depth) IN rule.ip \div low = ip \div low

\* The rule that rte_lpm_lookup_bulk decides for.
longest(ip) ==
  CHOOSE r \in DOMAIN rules :
    /\ covers(r, ip)
    /\ \A q \in DOMAIN rules : covers(q, ip) => q.depth <= r.depth

\* The test result[i] && RTE_LPM_LOOKUP_SUCCESS accepts every number but
\* zero, which stands for a miss here.
lpm_lookup(ip) ==
  IF \E r \in DOMAIN rules : covers(r, ip)
  THEN lpm_content[rules[longest(ip)] % TABLE_MAX]
  ELSE default_val["lpm"]

matches(e, key) == e.key = key \intersect e.mask

\* Seeded bug: the loop goes on after a match.
naive_ternary_lookup_no_break(key) ==
  LET scan[i \in 0 .. Len(entries)] ==
        IF i = 0 THEN [match |-> TRUE, res |-> 0]
        ELSE IF matches(entries[i], key)
        THEN [match |-> TRUE, res |-> entries[i].value]
        ELSE [match |-> i > 1 /\ scan[i - 1].match, res |-> scan[i - 1].res]
      last == scan[Len(entries)]
  IN  IF last.match THEN last.res ELSE 0

\* match is 1 before the loop, and left as the last examined entry set it.
\* An empty table is not looked up in: res would be the null pointer.
naive_ternary_lookup(key) ==
  LET scan[i \in 0 .. Len(entries)] ==
        IF i = 0 THEN [match |-> TRUE, res |-> 0]
        ELSE IF i > 1 /\ scan[i - 1].match THEN scan[i - 1]
        ELSE IF matches(entries[i], key)
        THEN [match |-> TRUE, res |-> entries[i].value]
        ELSE [match |-> FALSE, res |-> scan[i - 1].res]
      last == scan[Len(entries)]
  IN  IF last.match THEN last.res ELSE 0

ternary_lookup(key) ==
  IF naive_ternary_lookup(key) = 0 THEN default_val["ternary"]
  ELSE naive_ternary_lookup(key)

-----------------------------------------------------------------------------
(* Properties.                                                             *)

(* Every variable has its type, and every number an array is indexed with  *)
(* is inside the array.                                                    *)
LookupTypeOK ==
  /\ max_size \in MaxSizes
  /\ DOMAIN position \subseteq Keys
  /\ \A k \in DOMAIN position : position[k] \in 0 .. max_size - 1
  /\ free_slots \in Seq(0 .. max_size - 1)
  /\ refused \subseteq 1 .. Len(calls)
  /\ content \in [Index -> 0 .. Len(calls)]
  /\ DOMAIN rules \subseteq Rules
  /\ \A r \in DOMAIN rules : rules[r] \in Index
  /\ lpm_content \in [Index -> 0 .. Len(calls)]
  /\ size \in Index
  /\ Len(entries) <= AclEntries
  /\ default_val \in [Tables -> 0 .. Len(calls)]
  /\ running \in BOOLEAN

\* The calls of a function, and those with a key among them.
calls_of(fun)       == {n \in DOMAIN calls : calls[n].fun = fun}
calls_for(fun, key) == {n \in calls_of(fun) : calls[n].key = key}
newest(ns)          == CHOOSE n \in ns : \A m \in ns : m <= n

\* No two keys can share a pointer: the table has a pointer for each of its
\* slots, or too few calls were made to reach a slot beyond the pointers.
roomy == \/ max_size <= TABLE_MAX
         \/ Cardinality(calls_of("exact_add")) <= TABLE_MAX

(* A key finds the default action as long as rte_hash accepted none of its *)
(* calls.  Then it finds the newest value that was accepted for it, or a   *)
(* newer one: in a roomy table only that of a refused call, which lies at  *)
(* no_space, and in any other table also that of another key, since calls  *)
(* for an old key use up slots too.  Calls for an old key are refused only *)
(* by a full table, those for a new one only by a full table or bucket.    *)
(* No array is ever indexed outside (LookupTypeOK).                        *)
ExactFindsNewest ==
  LET keys == Cardinality(DOMAIN position)
  IN  /\ LookupTypeOK
      /\ keys < max_size /\ keys < BucketEntries => refused = {}
      /\ \A k \in Keys :
           LET all == calls_for("exact_add", k)
               own == all \ refused
               m   == exact_lookup(k)
           IN  IF own = {} THEN m = default_val["exact"]
               ELSE /\ m \in calls_of("exact_add") /\ m >= newest(own)
                    /\ roomy => \/ m = newest(own)
                                \/ m \in refused /\ no_space < max_size
                    /\ keys < max_size => newest(own) = newest(all)

(* An address finds what its longest prefix was given last, unless as many *)
(* additions as content has room for were made since: additions of other   *)
(* rules and of the same one count alike.  Then it finds a newer value.    *)
LpmFindsLongest ==
  running =>
    \A ip \in Addresses :
      LET own == {r \in Rules : covers(r, ip) /\ calls_for("lpm_add", r) # {}}
      IN  IF own = {} THEN lpm_lookup(ip) = default_val["lpm"]
          ELSE LET r == CHOOSE q \in own : \A o \in own : o.depth <= q.depth
                   n == newest(calls_for("lpm_add", r))
                   since == {m \in calls_of("lpm_add") : m > n}
               IN  /\ lpm_lookup(ip) >= n
                   /\ Cardinality(since) < TABLE_MAX => lpm_lookup(ip) = n

(* The loop of naive_ternary_lookup returns the first entry that was added *)
(* among those that match, and the default action if none does.            *)
TernaryFindsFirst ==
  entries # <<>> =>
    \A key \in SUBSET Bits :
      LET hits == {n \in calls_of("ternary_add") : matches(calls[n].key, key)}
      IN  IF hits = {} THEN ternary_lookup(key) = default_val["ternary"]
          ELSE ternary_lookup(key) \in hits
               /\ \A n \in hits : ternary_lookup(key) <= n
=============================================================================
