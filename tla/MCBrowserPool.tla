---------------------------- MODULE MCBrowserPool ----------------------------
(***************************************************************************)
(* A small instance of BrowserPool: two jobs, the goroutine that waits for *)
(* the owner's context, and a session that calls Close itself.             *)
(***************************************************************************)
EXTENDS BrowserPool

CONSTANTS l1, l2, owner, session

=============================================================================
