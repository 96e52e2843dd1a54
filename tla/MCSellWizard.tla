---------------------------- MODULE MCSellWizard ----------------------------
(* The wizard with room for two photos.                                    *)
EXTENDS SellWizard
=============================================================================
