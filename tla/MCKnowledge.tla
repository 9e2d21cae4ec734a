---------------------------- MODULE MCKnowledge ----------------------------
(* Instances of Memory and of Procedures.  Memory, strategies and playbooks share *)
(* no table here, so each run of the system exercises one of the three. *)
EXTENDS Memory, Procedures

CONSTANTS k1, k2, k3, d1, lesson, other, rule1, rule2

-----------------------------------------------------------------------------
(* Memory: a lesson, its replacement, a reflection that supersedes it softly, *)
(* links with and without keys, and two readers. *)

Retain(key, body, supersedes) ==
    [key |-> key, type |-> "observation", body |-> body, parent |-> None,
     supersedes |-> supersedes, from |-> None, to |-> None, importance |-> 5, fades |-> FALSE,
     about |-> None, wired |-> << >>]
Fading == [Retain(k1, lesson, None) EXCEPT !.fades = TRUE, !.to = 2]
Replacement == Retain(k2, other, 1)
Reflection == [Retain(k3, other, None) EXCEPT !.type = "reflection", !.about = d1,
                 !.wired = <<[type |-> "supersedes", target |-> 1]>>]

MCWrites == {Fading, Replacement, Reflection}
MCLinks == {[key |-> k1, source |-> d1, target |-> 1, type |-> "supports"],
            [key |-> OptOut, source |-> 2, target |-> 1, type |-> "supersedes"]}
MCQueries == {[asOf |-> None, all |-> FALSE, context |-> d1, body |-> other, k |-> 3, sure |-> FALSE],
              [asOf |-> 1, all |-> TRUE, context |-> None, body |-> lesson, k |-> 2, sure |-> TRUE]}

\* Lessons without keys.
KeylessWrites == {Retain(Derived, lesson, None), Retain(Derived, other, None), Fading}

\* Readers are alike, and telemetry does not name them.
Symmetry == Permutations(Readers)

-----------------------------------------------------------------------------
(* Procedures: one rule about sources and one about a link. *)

MCRow == [d \in Decisions |-> [type |-> "paper_enter", field |-> Null]]
Rule(family, edge, minimum) ==
    [family |-> family, scope |-> {"paper_enter"}, wants |-> "", kind |-> "memory_node",
     edge |-> edge, minimum |-> minimum]
MCPredicate == (rule1 :> Rule("source_count_at_least", "supports", 1))
               @@ (rule2 :> Rule("link_exists", "contradicts", 0))

Proposed(p, number, parent, key) ==
    [playbook |-> p, reflection |-> "n1", number |-> number, parent |-> parent, key |-> key]
MCProposals == {Proposed("p1", Null, Null, k1), Proposed("p1", Null, Null, k2),
                Proposed("p2", Null, 1, k3), Proposed("p1", 2, Null, k3)}
Adhered(v, r, status, key) ==
    [decision |-> d1, version |-> v, rule |-> r, status |-> status, key |-> key]
MCReports == {Adhered(1, rule1, "followed", k1), Adhered(1, rule2, "overridden", k1),
              Adhered(2, rule2, "followed", k2), Adhered(1, rule2, "followed", k3)}
Joined(kind, type) == [decision |-> d1, kind |-> kind, type |-> type]
MCAttachments == {Joined("source", "supports"), Joined("source", "contradicts"),
                  Joined("memory_node", "contradicts")}

KnowledgeInit == Init /\ ProceduresInit
KnowledgeNext ==
    \/ ProceduresInit /\ Next /\ UNCHANGED procedureVars
    \/ Init /\ UNCHANGED vars /\ playbooks = {} /\ StrategyNext
    \/ Init /\ UNCHANGED vars /\ strategyLog = << >> /\ PlaybookNext
KnowledgeSpec == KnowledgeInit /\ [][KnowledgeNext]_<<vars, procedureVars>>
=============================================================================
