----------------------------- MODULE PageKinds -----------------------------
(***************************************************************************)
(* The pages of Panels as data: what each page of frontend/app and of      *)
(* frontend/components asks the API for, which rows it offers which        *)
(* controls of, and what its handlers and dialogs do.  Pages that agree in *)
(* all of this are one record.                                             *)
(***************************************************************************)

(* What a page is made of *)

(* How it asks: who searches (the server, the browser after a delay, the   *)
(* browser at once) and who cuts the list into pages; what goes back to    *)
(* the first page, the delay or the typing; whether the API caches the     *)
(* list; what a failure does.                                              *)
Asks(search, pager, resets, cached, error) ==
    [search |-> search, pager |-> pager, resets |-> resets,
     cached |-> cached, error |-> error]

(* A page that loads everything, and one that loads nothing. *)
Loads == Asks("none", "none", "never", FALSE, "keep")
Blank == Asks("none", "none", "never", FALSE, "blank")

(* Who filters, and whether that goes back to the first page. *)
Filter(by, resets) == [by |-> by, resets |-> resets]
NoFilter == Filter("none", FALSE)

(* A handler: what the API does, the flag it holds, what the page does     *)
(* with the answer, whether it closes its dialog, and when the API drops   *)
(* the cached lists, before or after it commits.                           *)
Handler(does, flag, after, shuts, drops) ==
    [does |-> does, flag |-> flag, after |-> after, shuts |-> shuts, drops |-> drops]

(* A control: where it is, whether its flag disables it, and whether its   *)
(* dialog stays while the flag is held.                                    *)
Control(via, guarded, locks) == [via |-> via, guarded |-> guarded, locks |-> locks]
Button == Control("button", TRUE, FALSE)
Link   == Control("button", FALSE, FALSE)
Dialog == Control("dialog", TRUE, FALSE)
Alert  == Control("alert", TRUE, FALSE)
Form   == Control("form", TRUE, FALSE)
Top    == Control("top", TRUE, FALSE)

(* An operation of a page; offered says of which rows. *)
Op(handler, control, offered) ==
    [does |-> handler.does, flag |-> handler.flag, after |-> handler.after,
     shuts |-> handler.shuts, drops |-> handler.drops,
     via |-> control.via, guarded |-> control.guarded, locks |-> control.locks,
     offered |-> offered]

(* Rows of which a control is offered: without content, with it, or any. *)
Open  == "open"
Taken == "taken"
Any   == "any"

ReadOnly == {}
Page(asks, filter, ops) == [asks |-> asks, filter |-> filter, ops |-> ops]
-----------------------------------------------------------------------------
(* The pages: how each asks, what each handler does, where its controls are *)

(* admin/messaging: the channels a vendor is announced in. *)
MessagingAsks == Asks("server", "server", "debounce", FALSE, "keep")
ToggleEnabled == Handler("put", "row", "patch", "never", "never")
SaveChannels  == Handler("put", "dialog", "patch", "answer", "never")
TestSend      == Handler("none", "other", "none", "answer", "never")
EnabledSwitch == Button
EnabledColumn == Button
ChannelsDialog == Dialog
TestDialog     == Dialog
Messaging == Page(MessagingAsks, NoFilter,
                  {Op(ToggleEnabled, EnabledSwitch, Any), Op(ToggleEnabled, EnabledColumn, Any),
                   Op(SaveChannels, ChannelsDialog, Any), Op(TestSend, TestDialog, Any)})

(* users *)
UsersAsks    == Asks("server", "server", "debounce", TRUE, "empty")
UsersFilters == Filter("server", TRUE)
RoleChange   == Handler("put", "row", "reload", "never", "after")
ToggleActive == Handler("flip", "row", "reload", "never", "after")
DeleteUser   == Handler("remove", "dialog", "cut", "answer", "before")
UserRow      == Button
UserDialog   == Dialog
Users == Page(UsersAsks, UsersFilters,
              {Op(RoleChange, UserRow, Any), Op(ToggleActive, UserRow, Any),
               Op(DeleteUser, UserDialog, Any)})

(* admin/manager-requests: a request is decided once. *)
RequestsAsks    == Asks("direct", "none", "never", FALSE, "keep")
RequestsFilter  == Filter("client", FALSE)
SubmitDecision  == Handler("decide", "dialog", "patch", "answer", "never")
DecisionButtons == Open
DecisionDialog  == Control("dialog", TRUE, TRUE)
ManagerRequests == Page(RequestsAsks, RequestsFilter,
                        {Op(SubmitDecision, DecisionDialog, DecisionButtons)})

(* admin/vendors: new vendors wait here for approval. *)
PendingAsks   == Asks("client", "server", "never", TRUE, "keep")
PendingOnly   == Filter("fixed", FALSE)
ApproveVendor == Handler("accept", "row", "reload", "never", "before")
RejectVendor  == Handler("reject", "row", "reload", "never", "before")
PendingRow    == Button
PendingVendors == Page(PendingAsks, PendingOnly,
                       {Op(ApproveVendor, PendingRow, Any), Op(RejectVendor, PendingRow, Any)})

(* vendors *)
VendorsAsks    == Asks("server", "server", "debounce", TRUE, "empty")
VendorsFilters == Filter("server", TRUE)
DeleteVendor   == Handler("remove", "dialog", "reload", "answer", "after")
ToggleVendor   == Handler("put", "none", "reload", "never", "after")
VendorRow      == Link
VendorAlert    == Alert
Vendors == Page(VendorsAsks, VendorsFilters,
                {Op(DeleteVendor, VendorAlert, Any), Op(ToggleVendor, VendorRow, Any)})

(* contact: messages are filtered in the browser. *)
MessagesAsks   == Asks("client", "both", "debounce", TRUE, "empty")
MessagesFilter == Filter("client", FALSE)
DeleteMessage  == Handler("remove", "none", "reload", "answer", "after")
MessageRow     == Any
MessageAlert   == Control("alert", FALSE, FALSE)
Messages == Page(MessagesAsks, MessagesFilter,
                 {Op(DeleteMessage, MessageAlert, MessageRow)})

(* Lists that are only read. *)
AllBookingsAsks    == Asks("server", "server", "debounce", TRUE, "keep")
AllBookingsFilters == Filter("server", TRUE)
AllBookings == Page(AllBookingsAsks, AllBookingsFilters, ReadOnly)

CancellationsAsks    == Asks("direct", "none", "never", FALSE, "keep")
CancellationsFilters == Filter("client", FALSE)
Cancellations == Page(CancellationsAsks, CancellationsFilters, ReadOnly)

PaymentsAsks    == Asks("none", "server", "never", FALSE, "card")
PaymentsFilters == Filter("server", TRUE)
Payments == Page(PaymentsAsks, PaymentsFilters, ReadOnly)

RefundsAsks    == Asks("none", "server", "never", FALSE, "card")
RefundsFilters == Filter("server", TRUE)
Refunds == Page(RefundsAsks, RefundsFilters, ReadOnly)

AllPaymentsAsks    == Asks("none", "server", "never", TRUE, "keep")
AllPaymentsFilters == Filter("server", TRUE)
AllPayments == Page(AllPaymentsAsks, AllPaymentsFilters, ReadOnly)

ExplorerAsks    == Asks("server", "server", "typing", TRUE, "keep")
ExplorerFilters == Filter("server", TRUE)
Explorer == Page(ExplorerAsks, ExplorerFilters, ReadOnly)

MyReviews == Page(Asks("none", "none", "never", FALSE, "card"), NoFilter, ReadOnly)

(* notifications: a broadcast asks for the list again after a while. *)
NotificationsAsks    == Asks("server", "server", "debounce", TRUE, "keep")
NotificationsFilters == Filter("server", TRUE)
MarkRead    == Handler("put", "none", "patch", "never", "after")
MarkAllRead == Handler("all", "other", "patch", "never", "after")
Broadcast   == Handler("add", "dialog", "later", "answer", "before")
UnreadRow   == Open
NotificationTable == Link
BroadcastDialog   == Dialog
Notifications == Page(NotificationsAsks, NotificationsFilters,
                      {Op(MarkRead, NotificationTable, UnreadRow), Op(MarkAllRead, Top, Any),
                       Op(Broadcast, BroadcastDialog, Any)})

(* admin/logs: the alert is closed before the request goes out. *)
LogsAsks    == Asks("none", "server", "never", TRUE, "keep")
LogsFilters == Filter("server", TRUE)
DeleteLog   == Handler("remove", "none", "reload", "click", "before")
LogRow      == Any
LogAlert    == Control("alert", FALSE, FALSE)
Logs == Page(LogsAsks, LogsFilters, {Op(DeleteLog, LogAlert, LogRow)})

(* The manager answers reviews in the list of them. *)
ReviewsAsks    == Asks("none", "none", "never", FALSE, "card")
RespondReview  == Handler("put", "dialog", "patch", "answer", "never")
ResponseEditor == Control("inline", TRUE, FALSE)
VendorReviews == Page(ReviewsAsks, NoFilter, {Op(RespondReview, ResponseEditor, Any)})

(* components/admin/hero-images-editor.tsx: an image is deleted by place. *)
HeroAsks   == Loads
UploadHero == Handler("add", "other", "await", "never", "never")
DeleteHero == Handler("place", "none", "await", "never", "never")
HeroImages == Page(HeroAsks, NoFilter, {Op(UploadHero, Top, Any), Op(DeleteHero, Link, Any)})

(* vendor-bookings-tab: a taken slot is cancelled, a free one is booked by *)
(* hand.                                                                   *)
BookingsOfWeek    == Loads
CancelBooking     == Handler("clear", "dialog", "reload", "answer", "never")
ManualSlotBooking == Handler("accept", "other", "reload", "answer", "never")
SlotButtons       == Taken
DetailDialog      == Dialog
ManualDialog      == Dialog
WeekBookings == Page(BookingsOfWeek, NoFilter,
                     {Op(CancelBooking, DetailDialog, SlotButtons),
                      Op(ManualSlotBooking, ManualDialog, Open)})

(* Forms *)
EditorLoad == Loads
SaveList   == Handler("put", "dialog", "none", "never", "never")
ListSettingEditor == Page(EditorLoad, NoFilter, {Op(SaveList, Form, Any)})

(* Uploaded images are added to those the form had at the upload.          *)
DetailsLoad == Loads
SaveVendor  == Handler("put", "dialog", "reload", "never", "after")
UploadImage == Handler("none", "other", "append", "never", "never")
DetailsForm == Form
ImageUpload == Top
VendorDetails == Page(DetailsLoad, NoFilter,
                      {Op(SaveVendor, DetailsForm, Any), Op(UploadImage, ImageUpload, Any)})

(* settings: the name is taken from the answer. *)
ProfileLoad    == Loads
SaveName       == Handler("put", "dialog", "adopt", "never", "never")
ChangePassword == Handler("none", "other", "none", "never", "never")
ChangeAvatar   == Handler("none", "row", "none", "never", "never")
NameForm       == Form
PasswordForm   == Top
AvatarButtons  == Top
Profile == Page(ProfileLoad, NoFilter,
                {Op(SaveName, NameForm, Any), Op(ChangePassword, PasswordForm, Any),
                 Op(ChangeAvatar, AvatarButtons, Any)})

(* admin/settings: one setting.  Saving another one moves the flag there,  *)
(* so the button of this one is not disabled for sure.                     *)
SettingsLoad == Loads
SaveSetting  == Handler("put", "none", "patch", "never", "never")
SettingForm  == Control("form", FALSE, FALSE)
Settings == Page(SettingsLoad, NoFilter, {Op(SaveSetting, SettingForm, Any)})

SubmitContact == Handler("add", "dialog", "none", "answer", "never")
ContactForm   == Form
Contact == Page(Blank, NoFilter, {Op(SubmitContact, ContactForm, Any)})

CreateVendor == Handler("add", "dialog", "none", "answer", "never")
CreateForm   == Form
NewVendor == Page(Blank, NoFilter, {Op(CreateVendor, CreateForm, Any)})

(* The dialog asks for the user's request each time it is opened, and so   *)
(* forgets that one is being submitted; the API keeps one that is pending. *)
SubmitRegister == Handler("join", "none", "none", "never", "never")
RegisterDialog == Control("dialog", FALSE, FALSE)
RegisterComplex == Page(Blank, NoFilter, {Op(SubmitRegister, RegisterDialog, Any)})

SubmitReview == Handler("add", "dialog", "none", "answer", "never")
ReviewDialog == Dialog
NewReview == Page(Blank, NoFilter, {Op(SubmitReview, ReviewDialog, Any)})

Pages ==
    [messaging |-> Messaging, users |-> Users, managerRequests |-> ManagerRequests,
     pendingVendors |-> PendingVendors, vendors |-> Vendors, messages |-> Messages,
     allBookings |-> AllBookings, cancellations |-> Cancellations, payments |-> Payments,
     refunds |-> Refunds, allPayments |-> AllPayments, explorer |-> Explorer,
     myReviews |-> MyReviews, notifications |-> Notifications, logs |-> Logs,
     vendorReviews |-> VendorReviews, heroImages |-> HeroImages,
     weekBookings |-> WeekBookings, listSetting |-> ListSettingEditor,
     vendorDetails |-> VendorDetails, profile |-> Profile, settings |-> Settings,
     contact |-> Contact, newVendor |-> NewVendor, registerComplex |-> RegisterComplex,
     newReview |-> NewReview,
     none |-> Page(Blank, NoFilter, ReadOnly)]  \* before a page is opened

=============================================================================
