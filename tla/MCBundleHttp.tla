----------------------------- MODULE MCBundleHttp -----------------------------
EXTENDS BundleHttp, TLC

CONSTANTS t1, t2, p1

OneThreadPerProc == [t \in Threads |-> t]
Post(actions, sizes) == [NoRequest EXCEPT !.matches = actions, !.post = TRUE, !.files = sizes]

\* Uploads of one and two files, a GET of the upload page, and a url that no
\* action matches.
Uploads == {Post({"WriteAction"}, <<600>>), Post({"WriteAction"}, <<600, 1600>>),
            [NoRequest EXCEPT !.matches = {"WriteAction"}], NoRequest}

\* The same for the redirect; one url is matched by both actions.
Redirects == {Post({"WriteRedirectAction"}, <<600, 1600>>),
              Post({"WriteAction", "WriteRedirectAction"}, <<600, 1600>>),
              [NoRequest EXCEPT !.matches = {"WriteRedirectAction"}]}

\* One process with two threads.
OneProc == [t \in Threads |-> p1]
FirstThread == [p \in Procs |-> t1]

ThreadSymmetry == Permutations(Threads)
=============================================================================
