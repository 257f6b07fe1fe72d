----------------------- MODULE MCNotificationPipeline -----------------------
(* An instance of NotificationPipeline with two routes and two coroutines. *)
EXTENDS NotificationPipeline

CONSTANTS t1, t2, phone, tablet

TwoRoutes == <<phone, tablet>>

=============================================================================
