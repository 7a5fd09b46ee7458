---------------------------- MODULE ForwardChain ----------------------------
(***************************************************************************)
(* The FORWARD chain of the zone gateway, as far as containment depends on *)
(* it: the rules firewall-rules.sh loads (return traffic, the conduits,    *)
(* the log rule) are one block, Conduits, in a sequence of DROP rules that *)
(* the responder and the playbook insert, append and delete.  iptables     *)
(* takes the first rule that matches; the default policy is DROP.          *)
(***************************************************************************)
EXTENDS Naturals, Sequences, SequencesExt

CONSTANTS
    Sources,   \* source addresses with a conduit to the controllers
    Conduits   \* the block of rules loaded by firewall-rules.sh

ASSUME ConduitsAssumption == Conduits \notin Sources

VARIABLE chain  \* FORWARD: a source stands for "-s source -j DROP"

Rule == Sources \cup {Conduits}

ChainInit == chain = <<Conduits>>

-----------------------------------------------------------------------------
Positions(r) == { i \in DOMAIN chain : chain[i] = r }

\* A packet of s that the conduits would accept never reaches them: a DROP
\* for s comes first.
Contained(s) ==
    \E i \in Positions(s) : \A j \in Positions(Conduits) : i < j

\* iptables -I FORWARD -s s -j DROP (responder.py:43)
InsertDrop(s) == chain' = <<s>> \o chain

\* iptables -A FORWARD -s s -j DROP (auto_block_ip.py:56)
AppendDrop(s) == chain' = Append(chain, s)

\* iptables -D FORWARD -s s -j DROP deletes the first such rule, and fails when
\* there is none.
DeleteDrop(s) ==
    \E first \in Positions(s) :
        /\ \A i \in Positions(s) : first <= i
        /\ chain' = RemoveAt(chain, first)

\* firewall-rules.sh: -F, then the policy and the conduits.
LoadRules == chain' = <<Conduits>>

=============================================================================
