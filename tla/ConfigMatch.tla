---------------------------- MODULE ConfigMatch ----------------------------
(***************************************************************************)
(* The transport rules of libvma.conf: how the parser's actions collect    *)
(* application-id instances and rules (config_parser.y), and how a socket  *)
(* looks them up (match.cpp): by program when it is created, and by role   *)
(* and addresses when it binds, connects, listens or sends.                *)
(*                                                                         *)
(* The program's name and its fnmatch with an instance's expression is one *)
(* flag of the instance; an address has Width bits.                        *)
(***************************************************************************)
EXTENDS Naturals, Sequences, FiniteSets

CONSTANTS Width,      \* bits of an address
          Ids,        \* the <<expression matches this program, user id>> pairs of the file
          AppId,      \* VMA_APPLICATION_ID of this process
          Tuples,     \* the address/port tuples of the rules of the file
          Targets,    \* the targets of the rules of the file
          RoleSet,    \* the roles of the rules of the file
          EndPoints,  \* the addresses sockets are matched with
          MaxRules,   \* Bound: rules in the file
          MaxInst     \* Bound: application-ids in the file

VARIABLES insts,    \* __instance_list
          curr,     \* curr_instance: an index in insts, or 0
          parsing   \* the file is being read; later only rules given by the program

cfgVars == <<insts, curr, parsing>>

TcpRoles == {"tcp_server", "tcp_client"}
UdpRoles == {"udp_sender", "udp_receiver", "udp_connect"}
Roles == TcpRoles \cup UdpRoles
AllAddr == [addr |-> <<>>, port |-> <<>>]  \* "*:*"

\* VMA_NETMASK applied to an address.
Masked(a, len) == (a \div 2 ^ (Width - len)) * 2 ^ (Width - len)

---------------------------------------------------------------------------
(* Parsing *)

NewInstance(id) == [id |-> id, rules |-> [r \in Roles |-> <<>>]]

add_instance(id) ==
    LET same == {i \in DOMAIN insts : insts[i].id = id}
    IN  IF same # {}
        THEN /\ curr' = CHOOSE i \in same : \A j \in same : i <= j
             /\ UNCHANGED insts
        ELSE /\ insts' = Append(insts, NewInstance(id))
             /\ curr' = Len(insts) + 1

\* __vma_rule_push_head is 0 while the file is parsed, and
\* __vma_parse_config_line sets it for good.
add_rule(role, first, second, target) ==
    LET list == IF curr = 0 THEN Append(insts, NewInstance(<<TRUE, "*">>)) ELSE insts
        at   == IF curr = 0 THEN Len(list) ELSE curr
        rule == [first |-> first, second |-> second, target |-> target]
    IN  /\ insts' = [list EXCEPT ![at].rules[role] =
                        IF parsing THEN Append(@, rule) ELSE <<rule>> \o @]
        /\ curr' = at

---------------------------------------------------------------------------
(* Matching one socket *)

\* The address as IPv4: <<a>>, or <<>> when it cannot be converted.
sockaddr_to_vma(ep, len) ==
    IF ep.family = "inet" THEN IF len < 16 THEN <<>> ELSE <<ep.addr>>
    ELSE IF ep.family = "inet6" THEN
            IF len < 24 \/ ~ep.embedded THEN <<>>
            ELSE IF ep.addr = 1 THEN <<2 ^ Width - 1>> \* ::1 is the loopback address
            ELSE <<ep.addr>>
    ELSE IF ep.family = "none" THEN <<ep.addr>>
    ELSE <<>>

match_ipv4_addr(rule, a) ==
    Masked(rule.addr[1], rule.addr[2]) = Masked(a, rule.addr[2])

\* find_target_family passes sizeof(struct sockaddr).
AddrLen == 16

MatchSide(rule, ep) ==
    /\ rule.port # <<>> => ep.port \in rule.port[1]..rule.port[2]
    /\ rule.addr # <<>> =>
          LET a == sockaddr_to_vma(ep, AddrLen)
          IN  a # <<>> /\ match_ipv4_addr(rule, a[1])

\* second is <<>> for a rule, or a socket, with one side.
match_ip_addr_and_port(transport, rule, first, second) ==
    /\ MatchSide(rule.first, first)
    /\ (rule.second # <<>> /\ second # <<>>) => MatchSide(rule.second[1], second[1])
    /\ rule.target \in {"OS", "ULP", transport}

match_program_name(inst) == inst.id[1]
match_user_defined_id(inst, app) == app = "*" \/ inst.id[2] \in {"*", app}

get_family_by_first_matching_rule(transport, rules, first, second) ==
    LET hit == {i \in DOMAIN rules :
                  match_ip_addr_and_port(transport, rules[i], first, second)}
    IN  IF hit = {} THEN "VMA"
        ELSE rules[CHOOSE i \in hit : \A j \in hit : i <= j].target

\* The instances of this program and application-id, in the order of the list.
Mine(app) == SelectSeq(insts, LAMBDA i : match_program_name(i) /\ match_user_defined_id(i, app))

\* A matching instance always gives a family, so the first one decides.
get_family_by_instance_first_matching_rule(transport, role, app, first, second) ==
    IF Mine(app) = <<>> THEN "VMA"
    ELSE get_family_by_first_matching_rule(transport, Mine(app)[1].rules[role], first, second)

\* The five __vma_match_* functions: the listening and the datagram roles are
\* matched by one address.
match_role(role, app, first, second) ==
    get_family_by_instance_first_matching_rule("VMA", role, app, first,
        IF role \in {"tcp_client", "udp_connect"} THEN <<second>> ELSE <<>>)

find_target_family(role, first, second) == match_role(role, AppId, first, second)

---------------------------------------------------------------------------
(* Matching the program *)

IsGlobal(rule) == /\ rule.first = AllAddr
                  /\ rule.second # <<>> => rule.second[1] = AllAddr

\* The first global rule the rules before it agree with.
match_by_all_rules_program(rules) ==
    LET before(i, ts) == \E j \in 1..(i - 1) : ~IsGlobal(rules[j]) /\ rules[j].target \in ts
        says(i) == IF ~IsGlobal(rules[i]) THEN {}
                   ELSE IF rules[i].target \in {"VMA", "ULP"} /\ ~before(i, {"OS"}) THEN {"VMA"}
                   ELSE IF rules[i].target = "OS" /\ ~before(i, {"VMA", "ULP"}) THEN {"OS"}
                   ELSE {}
        hit == {i \in DOMAIN rules : says(i) # {}}
    IN  IF hit = {} THEN "VMA"
        ELSE CHOOSE t \in says(CHOOSE i \in hit : \A j \in hit : i <= j) : TRUE

\* "only if both agree"; an instance whose two lists disagree passes the
\* decision on to the next one.
match_by_program(proto, app) ==
    LET server(i) == match_by_all_rules_program(i.rules[IF proto = "tcp" THEN "tcp_server" ELSE "udp_receiver"])
        client(i) == match_by_all_rules_program(i.rules[IF proto = "tcp" THEN "tcp_client" ELSE "udp_sender"])
        agree == SelectSeq(Mine(app), LAMBDA i : server(i) = client(i))
    IN  IF insts = <<>> THEN "VMA"
        ELSE IF agree = <<>> THEN "DEFAULT"
        ELSE server(agree[1])

---------------------------------------------------------------------------
CfgInit == /\ insts = <<>>
           /\ curr = 0
           /\ parsing = TRUE

NRules == LET n(i, r) == Len(insts[i].rules[r])
          IN  {<<i, r, k>> \in (DOMAIN insts) \X Roles \X (1..MaxRules) : k <= n(i, r)}

\* application-id <expression> <id>
app_id == /\ parsing
          /\ Len(insts) < MaxInst
          /\ \E id \in Ids : add_instance(id)
          /\ UNCHANGED parsing

\* use <target> <role> <tuple>, of the file or of vma_add_conf_rule
socket_statement ==
    /\ Cardinality(NRules) < MaxRules
    /\ \E role \in RoleSet, target \in Targets, t \in Tuples :
          add_rule(role, t[1], IF Len(t) = 2 THEN <<t[2]>> ELSE <<>>, target)
    /\ UNCHANGED parsing

\* The file has been read.
parse_config_file == parsing /\ parsing' = FALSE /\ UNCHANGED <<insts, curr>>

CfgNext == app_id \/ socket_statement \/ parse_config_file

CfgSpec == CfgInit /\ [][CfgNext]_cfgVars

---------------------------------------------------------------------------
(* The list of instances is a sequence of distinct identities and the      *)
(* parser's current instance is one of them.                               *)
CfgTypeOK ==
    /\ \A i \in DOMAIN insts : insts[i].id \in Ids \cup {<<TRUE, "*">>}
    /\ \A i, j \in DOMAIN insts : insts[i].id = insts[j].id => i = j
    /\ curr \in 0..Len(insts)
    /\ parsing \in BOOLEAN

OsFor(roles) == \A r \in roles, e, f \in EndPoints : find_target_family(r, e, f) = "OS"

(* A socket that addsocket leaves to the kernel because of the program's   *)
(* rules is one that every later lookup, with any address, would leave to  *)
(* the kernel too: the look-ahead of match_by_all_rules_program over the   *)
(* global and the other rules agrees with first-match lookup.  It holds    *)
(* with one application-id of this program in force, and for the roles     *)
(* that __vma_match_by_program reads.                                      *)
OsIsFinal ==
    Len(Mine(AppId)) = 1 =>
        /\ match_by_program("tcp", AppId) = "OS" => OsFor(TcpRoles)
        /\ match_by_program("udp", AppId) = "OS" => OsFor({"udp_sender", "udp_receiver"})

=============================================================================
