--------------------------- MODULE MCWebhookServing ---------------------------
(* The environments with which WebhookServing is checked. *)
EXTENDS WebhookServing

Values == {Unset, Blank, "image"}

SomeEnvironments ==
    [backend : Values, frontend : Values, listen : {Unset, "0.0.0.0:8443", Malformed, Unbindable}]
=============================================================================
