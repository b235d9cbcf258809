-------------------------- MODULE MCFileTransfer ---------------------------
(* Small instances of FileTransfer: an automatic preview and a command of  *)
(* the user, two attachments of others, and uploads of this user.          *)
EXTENDS FileTransfer, TLC

CONSTANTS a1, m1, u1, u2, f1, f2, g1, g2

OneAuto    == {a1}
OneManual  == {m1}
TwoUploads == {u1, u2}
TwoFiles   == {f1, f2}
TwoFresh   == {g1, g2}

=============================================================================
