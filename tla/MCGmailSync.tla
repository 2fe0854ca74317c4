---------------------------- MODULE MCGmailSync ----------------------------
(* Small instances of GmailSync *)
EXTENDS GmailSync, TLC

AnyCommand == Permutations(Commands)

=============================================================================
