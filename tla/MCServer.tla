------------------------------ MODULE MCServer ------------------------------
(***************************************************************************)
(* The parts of the server beside the page pipelines, the calls of OCR     *)
(* and the reindex job.  They share no variables, so each behaviour        *)
(* follows one of them, chosen at the start, and the others stay in an     *)
(* initial state of theirs: the sum of the state spaces, not their         *)
(* product.                                                                *)
(***************************************************************************)
EXTENDS Shares, FsStore, B2Store, Thumbnails, Watcher, Startup,
        Insights, Export, Documents, Reminders

CONSTANTS acme, invoice, limited, open

VARIABLE focus

(* A share for one view with a passphrase that expires, and one without    *)
(* limit or passphrase that does not within the bound of the clock.        *)
MCExpiresAt == [s \in Share |-> IF s = limited THEN 1 ELSE 2]
MCMaxViews == [s \in Share |-> IF s = limited THEN 1 ELSE 0]

(* Two directories with a file of the same name.                           *)
MCPath == {"a/x", "b/x"}
MCBaseOf == [p \in MCPath |-> "x"]

(* Documents with and without an amount, a date, a company and a type.     *)
MCPaper == {
  [amount |-> 5, company |-> acme, date |-> 4, docType |-> invoice],
  [amount |-> 7, company |-> acme, date |-> 7, docType |-> Unknown],
  [amount |-> 9, company |-> Unknown, date |-> Unknown, docType |-> invoice],
  [amount |-> Unknown, company |-> acme, date |-> 4, docType |-> invoice]}

MCInstant == 0..1

Parts == {"shares", "fs", "b2", "thumbs", "watch",
          "start", "insights", "export", "summary", "reminders"}

serverVars ==
  <<vars, fsVars, b2Vars, thumbVars, watchVars,
    startVars, insightVars, exportVars, docVars, reminderVars, focus>>

(* A part that does not move starts empty.                                 *)
ServerInit ==
  /\ focus \in Parts
  /\ Init
  /\ FsInit /\ (focus # "fs" => scanDir = "none")
  /\ B2Init /\ (focus # "b2" => object = [k \in ObjectKey |-> NoObject]
                              /\ \A c \in B2Caller : where[c].kind = "page")
  /\ ThumbInit /\ (focus # "thumbs" => indexed = <<>> /\ thumb = {})
  /\ WatchInit /\ StartInit /\ (focus # "start" => indices = {})
  /\ InsightInit
  /\ ExportInit /\ (focus # "export" => catalogue = <<>>)
  /\ DocInit
  /\ ReminderInit /\ (focus # "reminders" => window.until = 0)

ServerNext ==
  /\ UNCHANGED focus
  /\ IF focus = "shares" THEN Next ELSE UNCHANGED vars
  /\ IF focus = "fs" THEN FsNext ELSE UNCHANGED fsVars
  /\ IF focus = "b2" THEN B2Next ELSE UNCHANGED b2Vars
  /\ IF focus = "thumbs" THEN ThumbNext ELSE UNCHANGED thumbVars
  /\ IF focus = "watch" THEN WatchNext ELSE UNCHANGED watchVars
  /\ IF focus = "start" THEN StartNext ELSE UNCHANGED startVars
  /\ IF focus = "insights" THEN InsightNext ELSE UNCHANGED insightVars
  /\ IF focus = "export" THEN ExportNext ELSE UNCHANGED exportVars
  /\ IF focus = "summary" THEN DocNext ELSE UNCHANGED docVars
  /\ IF focus = "reminders" THEN ReminderNext ELSE UNCHANGED reminderVars

ServerSpec == ServerInit /\ [][ServerNext]_serverVars
=============================================================================
