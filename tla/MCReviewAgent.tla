---------------------------- MODULE MCReviewAgent ----------------------------
(***************************************************************************)
(* A small instance of ReviewAgent: two reviews and an officer, two        *)
(* document types of which one is followed, a missing rule and a           *)
(* comprehension failure to be proposed for it.                            *)
(***************************************************************************)
EXTENDS ReviewAgent

CONSTANTS gdpr, plain, json, default, nda, msa, none

MCProposals    == {plain, json}
MCTopic        == [p \in MCProposals |-> gdpr]
MCStripped     == [c \in {gdpr} |-> gdpr]
MCShipped      == [t \in {default} |-> {}]
MCDocTypes     == {nda, msa}

\* One line about the msa is too little; an unreadable line is none.
MCLogs == {<<none>>, <<nda, none, msa, nda>>, <<msa, none, nda, msa, nda, nda>>}

Entry(kind, p) == [kind |-> kind, proposal |-> p]
MCReplies == {<<Entry("sound", plain), Entry("odd", json)>>,
              <<Entry("unknown", plain), Entry("uncounted", plain)>>}

=============================================================================
