---------------------------- MODULE ControlMessages ----------------------------
(***************************************************************************)
(* The messages of the controller, from their construction (messages.c, as *)
(* the fill functions of the controller programs call it), through         *)
(* handle_p4_msg (handlers.c), to the change that recv_from_controller     *)
(* (generated controlplane.c) makes to a table.                            *)
(*                                                                         *)
(* A change is a record: fun is "add" or "setdefault", of a table, with a  *)
(* key and a value.  A value is an action and its parameters.              *)
(*                                                                         *)
(* A message is its header and table name, and buffer: which struct starts *)
(* at which offset.  Numbers that someone reads keep their byte order; the *)
(* names of fields and parameters and the lengths of their bitmaps are     *)
(* written but never read, and left out.                                   *)
(***************************************************************************)
EXTENDS Integers, SequencesExt

(* sizeof of the structs, and where the action of a default lies.          *)
size_of ==
  [add_table_entry |-> 140, set_default_action |-> 268,
   exact |-> 388, lpm |-> 388, action |-> 130, action_parameter |-> 260]
default_action == 136

P4_MAX_NUMBER_OF_FIELD_MATCHES     == 10
P4_MAX_NUMBER_OF_ACTION_PARAMETERS == 10
P4_BG_MEM_CELL_SIZE == 2048

(* The actions that the handlers of a table know.                          *)
actions_of ==
  [vlan_ingress_proc |-> {"add_vlan", "_nop"},
   mac_learning      |-> {"mac_learn", "_nop"},
   routable          |-> {"route", "_nop"},
   switching         |-> {"forward", "broadcast"},
   routing           |-> {"set_nhop", "_drop"}]

known(c) == /\ c.table \in DOMAIN actions_of
            /\ c.value.action \in actions_of[c.table]

-----------------------------------------------------------------------------
(* Byte order.                                                             *)

\* A number of sixteen bits on a little-endian machine.
htons(n) == 256 * (n % 256) + ((n \div 256) % 256)

netconv_p4_header(m) == [m EXCEPT !.length = htons(@)]

netconv_p4_field_match_complex(struct) ==
  IF struct.kind = "lpm" THEN [struct EXCEPT !.prefix_length = htons(@)]
  ELSE struct

-----------------------------------------------------------------------------
(* The controller writes a message: each struct at the end of the last.    *)

create_p4_add_table_entry(table) ==
  [type |-> "add", table_name |-> table, read_size |-> 0,
   length |-> size_of.add_table_entry, buffer |-> << >>]

create_p4_set_default_action(table, name) ==
  [type |-> "setdefault", table_name |-> table, read_size |-> 0,
   length |-> size_of.set_default_action,
   buffer |-> [offset \in {default_action} |->
                 [kind |-> "action", name |-> name, param_size |-> 0]]]

append(m, struct) ==
  [m EXCEPT !.buffer = [offset \in DOMAIN @ \union {m.length} |->
                          IF offset = m.length THEN struct ELSE @[offset]],
            !.length = @ + size_of[struct.kind]]

add_p4_field_match(m, field) ==
  [append(m, field) EXCEPT !.read_size = @ + 1]

add_p4_action(m, name) ==
  append(m, [kind |-> "action", name |-> name, param_size |-> 0])

add_p4_action_parameter(m, action, bitmap) ==
  [append(m, [kind |-> "action_parameter", bitmap |-> bitmap])
     EXCEPT !.buffer[action].param_size = @ + 1]

fields_of(c) ==
  IF c.table = "routing"
  THEN <<[kind |-> "lpm", bitmap |-> c.key[1], prefix_length |-> c.key[2]]>>
  ELSE [i \in DOMAIN c.key |-> [kind |-> "exact", bitmap |-> c.key[i]]]

params_of(value) ==
  CASE value.action = "forward"  -> <<value.port>>
    [] value.action = "set_nhop" -> <<value.smac, value.dmac, value.vid>>
    [] OTHER -> << >>

\* One field after the other, and one parameter.
with_fields(m, fields) ==
  LET written[i \in 0 .. Len(fields)] ==
        IF i = 0 THEN m ELSE add_p4_field_match(written[i - 1], fields[i])
  IN  written[Len(fields)]

with_params(m, action, params) ==
  LET written[i \in 0 .. Len(params)] ==
        IF i = 0 THEN m
        ELSE add_p4_action_parameter(written[i - 1], action, params[i])
  IN  written[Len(params)]

\* Then every part is brought into the order of the network.
netconv_all(m) ==
  [netconv_p4_header(m) EXCEPT !.buffer =
     [offset \in DOMAIN @ |-> netconv_p4_field_match_complex(@[offset])]]

fill_table(c) ==
  LET m == with_fields(create_p4_add_table_entry(c.table), fields_of(c))
  IN  netconv_all(with_params(add_p4_action(m, c.value.action), m.length,
                              params_of(c.value)))

set_default(c) ==
  LET m == create_p4_set_default_action(c.table, c.value.action)
  IN  netconv_all(with_params(m, default_action, params_of(c.value)))

message(c) == IF c.fun = "add" THEN fill_table(c) ELSE set_default(c)

(* What a controller program can ask for.  A route is the bytes of an      *)
(* address and a prefix length, any other key a sequence of fields.  The   *)
(* programs write into buffers as large as a cell and do not test whether  *)
(* a struct still fits (the functions above return null then), so all of   *)
(* theirs do.  An entry for vlan_ingress_proc is not among the inputs: its *)
(* handler passes the number field_instance_vlan__etherType as a pointer.  *)
request(c) ==
  /\ c.fun \in {"add", "setdefault"}
  /\ c.fun = "add" =>
       /\ c.table # "vlan_ingress_proc"
       /\ IF c.table = "routing"
          THEN c.key[1] \in Seq(0 .. 255) /\ c.key[2] \in 0 .. 255
          ELSE \E n \in 0 .. P4_MAX_NUMBER_OF_FIELD_MATCHES :
                 c.key = [i \in 1 .. n |-> c.key[i]]
       /\ size_of.add_table_entry + Len(fields_of(c)) * size_of.exact
            + size_of.action
            + Len(params_of(c.value)) * size_of.action_parameter
            <= P4_BG_MEM_CELL_SIZE
  /\ c.value = CASE c.value.action = "forward"  ->
                     [action |-> "forward", port |-> c.value.port]
                [] c.value.action = "set_nhop" ->
                     [action |-> "set_nhop", smac |-> c.value.smac,
                      dmac |-> c.value.dmac, vid |-> c.value.vid]
                [] OTHER -> [action |-> c.value.action]

-----------------------------------------------------------------------------
(* The switch reads a message.                                             *)

action_params(m, first, param_size) ==
  [i \in 1 .. param_size |->
     m.buffer[first + (i - 1) * size_of.action_parameter].bitmap]

handle_p4_set_default_action(m) ==
  LET action == m.buffer[default_action]
  IN  [rval |-> IF action.param_size > P4_MAX_NUMBER_OF_ACTION_PARAMETERS
                THEN -1 ELSE 0,
       type |-> m.type, table_name |-> m.table_name, field_matches |-> << >>,
       action_name |-> action.name,
       action_params |->
         action_params(m, size_of.set_default_action, action.param_size)]

\* The field matches are found one behind the other, by the size of each.
handle_p4_add_table_entry(m) ==
  LET offset[i \in 0 .. m.read_size] ==
        IF i = 0 THEN size_of.add_table_entry
        ELSE offset[i - 1] + size_of[m.buffer[offset[i - 1]].kind]
      action == m.buffer[offset[m.read_size]]
  IN  [rval |-> IF m.read_size > P4_MAX_NUMBER_OF_FIELD_MATCHES THEN -1
                ELSE IF action.param_size > P4_MAX_NUMBER_OF_ACTION_PARAMETERS
                THEN -2 ELSE 0,
       type |-> m.type, table_name |-> m.table_name,
       field_matches |->
         [i \in 1 .. m.read_size |->
            netconv_p4_field_match_complex(m.buffer[offset[i - 1]])],
       action_name |-> action.name,
       action_params |->
         action_params(m, offset[m.read_size] + size_of.action,
                       action.param_size)]

-----------------------------------------------------------------------------
(* The change to a table.  A table is its entries and its default action.  *)

add(table, key, value) ==
  [table EXCEPT !.entries = [k \in DOMAIN @ \union {key} |->
                               IF k = key THEN value ELSE @[k]]]

setdefault(table, value) == [table EXCEPT !.default_val = value]

\* Seeded bug: the parameters of set_nhop are taken in another order.
action_of_swapped(ctrl_m) ==
  LET params == ctrl_m.action_params
  IN  CASE ctrl_m.action_name = "forward"  ->
             [action |-> "forward", port |-> params[1]]
        [] ctrl_m.action_name = "set_nhop" ->
             [action |-> "set_nhop", smac |-> params[2], dmac |-> params[1],
              vid |-> params[3]]
        [] OTHER -> [action |-> ctrl_m.action_name]

\* Parameters go by their places, not by their names.
action_of(ctrl_m) ==
  LET params == ctrl_m.action_params
  IN  CASE ctrl_m.action_name = "forward"  ->
             [action |-> "forward", port |-> params[1]]
        [] ctrl_m.action_name = "set_nhop" ->
             [action |-> "set_nhop", smac |-> params[1], dmac |-> params[2],
              vid |-> params[3]]
        [] OTHER -> [action |-> ctrl_m.action_name]

\* A rule of rte_lpm: the depth highest bits of an address, here whole bytes,
\* the highest first.  lpm_add reads four bytes as a little-endian number.
lpm_rule(bytes, depth) == SubSeq(Reverse(bytes), 1, depth \div 8)

\* Fields go by their places, too.  routing_add turns the bytes round; its
\* prefix length has eight bits.
key_of(ctrl_m) ==
  LET fields == ctrl_m.field_matches
  IN  IF ctrl_m.table_name = "routing"
      THEN lpm_rule(Reverse(fields[1].bitmap), fields[1].prefix_length % 256)
      ELSE [i \in DOMAIN fields |-> fields[i].bitmap]

\* Tables and actions of other names are reported and ignored.
recv_from_controller(tables, ctrl_m) ==
  LET t == ctrl_m.table_name
  IN  IF t \notin DOMAIN actions_of THEN tables
      ELSE IF ctrl_m.action_name \notin actions_of[t] THEN tables
      ELSE IF ctrl_m.type = "add"
      THEN [tables EXCEPT ![t] = add(@, key_of(ctrl_m), action_of(ctrl_m))]
      ELSE [tables EXCEPT ![t] = setdefault(@, action_of(ctrl_m))]

\* What becomes of the tables when input_processor has handled a message.
handle_p4_msg(tables, msg) ==
  LET m == netconv_p4_header(msg)
      ctrl_m == IF m.type = "add" THEN handle_p4_add_table_entry(m)
                ELSE handle_p4_set_default_action(m)
  IN  IF m.length > P4_BG_MEM_CELL_SIZE \/ ctrl_m.rval < 0 THEN tables
      ELSE recv_from_controller(tables, ctrl_m)
=============================================================================
