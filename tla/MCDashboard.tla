---------------------------- MODULE MCDashboard -----------------------------
(* The dashboard with rows on several pages and page parameters as typed.  *)
EXTENDS Dashboard, TLC

\* ?page=3, beyond the last page, and ?page=2abc.
MCTypedPages == {Page(3), [num |-> 2, clean |-> FALSE]}

\* /enqueued?action=remove&id=1, the same with an action that is not known, and
\* /change-cron-job-status?action=deactivate&id=3.
MCTypedForms == {[action |-> "remove", id |-> 1], OtherAction, [action |-> "deactivate", id |-> 3]}

Symmetry == Permutations(Tabs)
=============================================================================
